---- MODULE Spec2Model ----
(***************************************************************************)
(* Model of the minispice MNA core: the StampContext arena, the Circuit    *)
(* bookkeeping (nodes, device list, finalize), the Newton-Raphson DC       *)
(* driver with its dense Gaussian-elimination solver, and the device       *)
(* stamps.  Three specifications share the variables: Spec drives one      *)
(* Circuit, SpecCtx one StampContext and SpecDev one device on a context.  *)
(*                                                                         *)
(* Numbers: a C `double` is modelled as an exact rational <<num, den>>     *)
(* with den > 0 in lowest terms.  The inputs are small, so no rounding     *)
(* occurs at the magnitudes explored.  Strings are tuples of characters,   *)
(* so strncpy truncation and strcasecmp are computed, not assumed.         *)
(***************************************************************************)
EXTENDS Integers, Sequences, FiniteSets, TLC

VARIABLES
    nodes,          \* Circuit.nodes[0..num_nodes-1]: seq of [name, var_index]
    devices,        \* Circuit.devices linked list, head first
    num_devices,    \* Circuit.num_devices
    num_vars,       \* Circuit.num_vars
    num_extra_vars, \* Circuit.num_extra_vars
    finalized,      \* Circuit.finalized
    rewritten,      \* the caller has rewritten the terminals to var indices
    ret,            \* [op, args, val]: the last API call, the arguments it
                    \* was given (where recorded) and what it returned
                    \* (op = "running" while circuit_dc_analysis executes)
    x,              \* the caller's solution vector (length num_vars)
    ctx,            \* a StampContext, or NoCtx
    pc,             \* position inside circuit_dc_analysis ("idle" outside)
    dc,             \* locals of circuit_dc_analysis
    heap,           \* allocation bookkeeping of the running analysis
    failed_finalize \* history: a circuit_finalize call has returned -1

vars == <<nodes, devices, num_devices, num_vars, num_extra_vars, finalized,
          rewritten, ret, x, ctx, pc, dc, heap, failed_finalize>>

circuitVars == <<nodes, devices, num_devices, num_vars, num_extra_vars,
                 finalized, rewritten, failed_finalize>>

-----------------------------------------------------------------------------
(* Bounds of the exploration *)

MaxNodes == 2        \* non-ground nodes a circuit may get
MaxDevices == 2      \* devices a circuit may get
MaxCtxVars == 5      \* largest num_vars of the stand-alone context
MaxTriplets == 2     \* triplets the stand-alone context may hold
MaxZ == 2            \* largest sum of the |z[i]| in the stand-alone context
MaxHistory == 13    \* largest |i_prev| a capacitor keeps, rounded down

-----------------------------------------------------------------------------
(* double arithmetic, as exact rationals *)

Abs(n) == IF n < 0 THEN -n ELSE n

RECURSIVE Gcd(_, _)
Gcd(a, b) == IF b = 0 THEN a ELSE Gcd(b, a % b)

Rat(n, d) ==
    LET s == IF d < 0 THEN -1 ELSE 1
        g == Gcd(Abs(n), Abs(d))
    IN  IF n = 0 THEN <<0, 1>> ELSE <<(s * n) \div g, (s * d) \div g>>

RZero == <<0, 1>>
ROne == <<1, 1>>
RInt(n) == <<n, 1>>
\* the sum over the least common denominator
RAdd(a, b) ==
    LET g == Gcd(a[2], b[2])
    IN  Rat(a[1] * (b[2] \div g) + b[1] * (a[2] \div g), (a[2] \div g) * b[2])
RNeg(a) == <<-a[1], a[2]>>
RSub(a, b) == RAdd(a, RNeg(b))
\* the product, cancelling across the fractions before multiplying so that the
\* intermediate values stay small
RMul(a, b) ==
    LET g1 == Gcd(Abs(a[1]), b[2])
        g2 == Gcd(Abs(b[1]), a[2])
    IN  Rat((a[1] \div g1) * (b[1] \div g2), (a[2] \div g2) * (b[2] \div g1))
RDiv(a, b) == IF b[1] < 0 THEN RMul(a, <<-b[2], -b[1]>>) ELSE RMul(a, <<b[2], b[1]>>)
RAbs(a) == <<Abs(a[1]), a[2]>>
RLt(a, b) ==
    LET g == Gcd(a[2], b[2])
    IN  a[1] * (b[2] \div g) < b[1] * (a[2] \div g)
RGt(a, b) == RLt(b, a)

-----------------------------------------------------------------------------
(* C strings *)

kMaxNodeNameLen == 64

ToLower(ch) ==
    CASE ch = "G" -> "g"
      [] ch = "N" -> "n"
      [] ch = "D" -> "d"
      [] ch = "R" -> "r"
      [] ch = "O" -> "o"
      [] ch = "U" -> "u"
      [] OTHER -> ch

LowerStr(s) == [i \in 1..Len(s) |-> ToLower(s[i])]

StrCaseEq(s, t) == LowerStr(s) = LowerStr(t)

\* strncpy(dst, name, kMaxNodeNameLen - 1); dst[kMaxNodeNameLen - 1] = '\0'
StrNCpy(name) ==
    IF Len(name) > kMaxNodeNameLen - 1
    THEN SubSeq(name, 1, kMaxNodeNameLen - 1)
    ELSE name

is_ground_name(name) ==
    \/ name = <<"0">>
    \/ StrCaseEq(name, <<"g", "n", "d">>)
    \/ StrCaseEq(name, <<"g", "r", "o", "u", "n", "d">>)

LongName == [i \in 1..kMaxNodeNameLen |-> "x"]

\* the names a caller passes to circuit_add_node
NameInputs ==
    { <<"a">>, <<"0">>, <<"G", "N", "D">>, <<"G", "r", "o", "u", "n", "d">>,
      LongName }

-----------------------------------------------------------------------------
(* StampContext *)

NoCtx == [null |-> TRUE]

ZeroVec(n) == [i \in 1..n |-> RZero]

\* z_.resize(n, 0.0): keeps the first cells, zero-fills the new ones
Resize(z, n) == [i \in 1..n |-> IF i <= Len(z) THEN z[i] ELSE RZero]

CtxCreate_AllowsZero(n) ==
    IF n < 0
    THEN NoCtx
    ELSE [num_vars_ |-> n, num_extra_allocated_ |-> 0,
          triplets_ |-> <<>>, z_ |-> ZeroVec(n)]

CtxCreate(n) ==
    IF n <= 0
    THEN NoCtx
    ELSE [num_vars_ |-> n, num_extra_allocated_ |-> 0,
          triplets_ |-> <<>>, z_ |-> ZeroVec(n)]

CtxReset_InitialSize(c) ==
    IF c = NoCtx THEN c
    ELSE [c EXCEPT !.triplets_ = <<>>,
                   !.z_ = ZeroVec(c.num_vars_ - c.num_extra_allocated_)]

CtxReset(c) ==
    IF c = NoCtx THEN c
    ELSE [c EXCEPT !.triplets_ = <<>>, !.z_ = ZeroVec(Len(c.z_))]

CtxAddA_KeepsZero(c, row, col, val) ==
    IF c = NoCtx THEN c
    ELSE IF row < 0 \/ row >= c.num_vars_ THEN c
    ELSE IF col < 0 \/ col >= c.num_vars_ THEN c
    ELSE [c EXCEPT !.triplets_ = Append(@, [row |-> row, col |-> col, val |-> val])]

CtxAddA(c, row, col, val) ==
    IF c = NoCtx THEN c
    ELSE IF row < 0 \/ row >= c.num_vars_ THEN c
    ELSE IF col < 0 \/ col >= c.num_vars_ THEN c
    ELSE IF val = RZero THEN c
    ELSE [c EXCEPT !.triplets_ = Append(@, [row |-> row, col |-> col, val |-> val])]

CtxAddZ_ClampsIndex(c, idx, val) ==
    IF c = NoCtx THEN c
    ELSE IF idx >= c.num_vars_ THEN c
    ELSE [c EXCEPT !.z_[(IF idx < 0 THEN 0 ELSE idx) + 1] = RAdd(@, val)]

CtxAddZ(c, idx, val) ==
    IF c = NoCtx THEN c
    ELSE IF idx < 0 \/ idx >= c.num_vars_ THEN c
    ELSE [c EXCEPT !.z_[idx + 1] = RAdd(@, val)]

\* the index CtxAllocExtraVar returns
CtxAllocIdx(c) == c.num_vars_ + c.num_extra_allocated_

CtxAllocExtraVar(c) ==
    LET new_idx == CtxAllocIdx(c)
    IN  [c EXCEPT !.num_extra_allocated_ = @ + 1,
                  !.z_ = Resize(@, new_idx + 1),
                  !.num_vars_ = new_idx + 1]

RECURSIVE Accumulate_Overwrites(_, _, _)
Accumulate_Overwrites(m, ts, n) ==
    IF ts = <<>> THEN m
    ELSE LET t == Head(ts)
             k == t.row * n + t.col + 1
         IN  Accumulate_Overwrites([m EXCEPT ![k] = t.val], Tail(ts), n)

\* the dense row-major matrix, cell row*n+col stored at position row*n+col+1
RECURSIVE Accumulate(_, _, _)
Accumulate(m, ts, n) ==
    IF ts = <<>> THEN m
    ELSE LET t == Head(ts)
             k == t.row * n + t.col + 1
         IN  Accumulate([m EXCEPT ![k] = RAdd(@, t.val)], Tail(ts), n)

CtxAssembleDense(c) ==
    LET n == c.num_vars_
    IN  Accumulate([i \in 1..(n * n) |-> RZero], c.triplets_, n)

AssembledContext_ConsumesTriplets(c) ==
    IF c = NoCtx THEN c ELSE [c EXCEPT !.triplets_ = <<>>]

\* the context after CtxAssembleDense: the loop reads triplets_ through a
\* const reference and writes matrix[] only
AssembledContext(c) == c

-----------------------------------------------------------------------------
(* Devices *)

DeviceKinds == {"R", "I", "V", "C", "L"}

\* the parameter values a caller passes to the Create* factories
ParamInputs == {RInt(2)}

NoState == [null |-> TRUE]

\* calloc(1, sizeof(CapacitorState)) / calloc(1, sizeof(InductorState))
ZeroState == [prev |-> RZero, prev2 |-> RZero, aux |-> RZero]

\* CreateResistor, CreateCurrentSource, CreateVoltageSource, CreateCapacitor,
\* CreateInductor: calloc'ed Device, two terminals, extra_var = -1
CreateDevice(kind, name, n1, n2, val) ==
    [name |-> name, kind |-> kind, nodes |-> <<n1, n2, -1, -1>>,
     params |-> val, state |-> NoState, extra_var |-> -1]

\* CreateDiode: as the other factories, with the two parameters I_s and n.
\* The diode's currents and conductances are held in units of 1e-12 (pA, pS)
\* and its voltages in volts, so that I_s = 1e-14 A is the fraction 1/100 and
\* the conductance floor 1e-12 S is 1.
CreateDiode(name, n_anode, n_cathode, I_s, n) ==
    [name |-> name, kind |-> "D", nodes |-> <<n_anode, n_cathode, -1, -1>>,
     params |-> [i_s |-> I_s, n |-> n], state |-> NoState, extra_var |-> -1]

\* the Init hook of each vtable
DeviceInit(d) ==
    CASE d.kind = "V" -> [d EXCEPT !.extra_var = -2]
      [] d.kind = "L" -> [d EXCEPT !.extra_var = -2, !.state = ZeroState]
      [] d.kind = "C" -> [d EXCEPT !.state = ZeroState]
      [] OTHER -> d

-----------------------------------------------------------------------------
(* Circuit *)

num_nodes == Len(nodes)

\* a call of op with arguments args that returned v (v = 0 for a void call)
CallVal(op, args, v) == [op |-> op, args |-> args, val |-> v]

RetVal(op, v) == CallVal(op, <<>>, v)

\* the first index i (0-based) with strcmp(nodes[i].name, name) == 0, or -1
FindNode(ns, name) ==
    LET hits == {i \in 1..Len(ns) : ns[i].name = name}
    IN  IF hits = {} THEN -1
        ELSE (CHOOSE i \in hits : \A j \in hits : i <= j) - 1

AddNodeResult_NoFinalizedGuard(name) ==
    IF is_ground_name(name) THEN 0
    ELSE IF finalized = 1 THEN -1
    ELSE IF FindNode(nodes, name) >= 0 THEN FindNode(nodes, name)
    ELSE num_nodes

\* what circuit_add_node returns
AddNodeResult(name) ==
    IF finalized = 1 THEN -1
    ELSE IF is_ground_name(name) THEN 0
    ELSE IF FindNode(nodes, name) >= 0 THEN FindNode(nodes, name)
    ELSE num_nodes

circuit_add_node(name) ==
    /\ pc = "idle"
    /\ LET r == AddNodeResult(name)
           appends == /\ finalized = 0
                      /\ ~is_ground_name(name)
                      /\ FindNode(nodes, name) < 0
       IN  /\ appends => num_nodes <= MaxNodes
           /\ nodes' = IF appends
                       THEN Append(nodes, [name |-> StrNCpy(name), var_index |-> -1])
                       ELSE nodes
           /\ ret' = CallVal("add_node", <<name>>, r)
    /\ UNCHANGED <<devices, num_devices, num_vars, num_extra_vars, finalized,
                   rewritten, x, ctx, pc, dc, heap, failed_finalize>>

\* circuit_add_device returns the device (here: its name, >= 1) or nullptr
NullDevice == 0

\* d->next = c->devices; c->devices = d
PushFront(d, list) == <<d>> \o list

\* circuit_add_device(c, d)
AddDevice(d) ==
    /\ pc = "idle"
    /\ IF finalized = 1
       THEN /\ ret' = RetVal("add_device", NullDevice)
            /\ UNCHANGED <<devices, num_devices>>
       ELSE /\ num_devices < MaxDevices
            /\ devices' = PushFront(d, devices)
            /\ num_devices' = num_devices + 1
            /\ ret' = RetVal("add_device", d.name)
    /\ UNCHANGED <<nodes, num_vars, num_extra_vars, finalized, rewritten,
                   x, ctx, pc, dc, heap, failed_finalize>>

\* a device fresh from its factory is added
circuit_add_device(kind, n1, n2, val) ==
    AddDevice(CreateDevice(kind, num_devices + 1, n1, n2, val))

\* the caller has written d->extra_var before handing the device over
circuit_add_prepared(kind, n1, n2, val, extra) ==
    AddDevice([CreateDevice(kind, num_devices + 1, n1, n2, val)
                  EXCEPT !.extra_var = extra])

AssignVarIndices_NodeIndex(ns) ==
    [i \in 1..Len(ns) |-> [ns[i] EXCEPT !.var_index = IF i = 1 THEN -1 ELSE i - 1]]

\* finalize, first loop: ground gets -1, node i gets i-1
AssignVarIndices(ns) ==
    [i \in 1..Len(ns) |-> [ns[i] EXCEPT !.var_index = IF i = 1 THEN -1 ELSE i - 2]]

\* finalize, last loop: walk the list from its head and grant the next index
\* num_vars + num_extra_vars to every device that holds -2
RECURSIVE GrantExtraVars(_, _, _)
GrantExtraVars(list, nv, nextra) ==
    IF list = <<>> THEN [devs |-> <<>>, nextra |-> nextra]
    ELSE LET d == Head(list)
             hit == d.extra_var = -2
             rest == GrantExtraVars(Tail(list), nv, IF hit THEN nextra + 1 ELSE nextra)
         IN  [devs |-> <<IF hit THEN [d EXCEPT !.extra_var = nv + nextra] ELSE d>>
                        \o rest.devs,
              nextra |-> rest.nextra]

ClearExtraVars_KeepsValue(list) == list

\* finalize, second loop: d->extra_var = -1 for every device
ClearExtraVars(list) == [i \in 1..Len(list) |-> [list[i] EXCEPT !.extra_var = -1]]

InitDevices_GroundsTerminals(list) ==
    [i \in 1..Len(list) |->
        [DeviceInit(list[i]) EXCEPT !.nodes = [k \in 1..4 |-> IF @[k] = 0 THEN -1 ELSE @[k]]]]

\* d->vt->Init(d, c) on every device of the list
InitDevices(list) == [i \in 1..Len(list) |-> DeviceInit(list[i])]

FinalizeResult_RejectsSecond(already, created) ==
    IF already THEN -1 ELSE IF created THEN 0 ELSE -1

\* the three returns of circuit_finalize: already finalized, no context, done
FinalizeResult(already, created) ==
    IF already THEN 0 ELSE IF created THEN 0 ELSE -1

circuit_finalize_InitsBeforeContext ==
    /\ pc = "idle"
    /\ IF finalized = 1
       THEN /\ ret' = RetVal("finalize", FinalizeResult(TRUE, TRUE))
            /\ UNCHANGED <<nodes, devices, num_vars, num_extra_vars, finalized>>
       ELSE LET ns == AssignVarIndices(nodes)
                nv == Len(nodes) - 1
                cleared == ClearExtraVars(devices)
                tmp == CtxCreate(nv)
                g == GrantExtraVars(InitDevices(cleared), nv, 0)
            IN  /\ nodes' = ns
                /\ IF tmp = NoCtx
                   THEN /\ num_vars' = nv
                        /\ num_extra_vars' = 0
                        /\ devices' = InitDevices(cleared)
                        /\ finalized' = 0
                        /\ ret' = RetVal("finalize", FinalizeResult(FALSE, FALSE))
                   ELSE /\ devices' = g.devs
                        /\ num_extra_vars' = g.nextra
                        /\ num_vars' = nv + g.nextra
                        /\ finalized' = 1
                        /\ ret' = RetVal("finalize", FinalizeResult(FALSE, TRUE))
    /\ UNCHANGED <<num_devices, rewritten, x, ctx, pc, dc, heap>>

\* circuit_finalize (failed_finalize is written where Next and NextFin take it)
circuit_finalize ==
    /\ pc = "idle"
    /\ IF finalized = 1
       THEN /\ ret' = RetVal("finalize", FinalizeResult(TRUE, TRUE))
            /\ UNCHANGED <<nodes, devices, num_vars, num_extra_vars, finalized>>
       ELSE LET ns == AssignVarIndices(nodes)
                nv == Len(nodes) - 1
                cleared == ClearExtraVars(devices)
                tmp == CtxCreate(nv)
                g == GrantExtraVars(InitDevices(cleared), nv, 0)
            IN  /\ nodes' = ns
                /\ IF tmp = NoCtx
                   THEN /\ num_vars' = nv
                        /\ num_extra_vars' = 0
                        /\ devices' = cleared
                        /\ finalized' = 0
                        /\ ret' = RetVal("finalize", FinalizeResult(FALSE, FALSE))
                   ELSE /\ devices' = g.devs
                        /\ num_extra_vars' = g.nextra
                        /\ num_vars' = nv + g.nextra
                        /\ finalized' = 1
                        /\ ret' = RetVal("finalize", FinalizeResult(FALSE, TRUE))
    /\ UNCHANGED <<num_devices, rewritten, x, ctx, pc, dc, heap>>

\* the caller's loop that converts node indices to variable indices
RewriteNodes(d, ns) ==
    [d EXCEPT !.nodes = [i \in 1..4 |->
        IF d.nodes[i] >= 0 /\ d.nodes[i] < Len(ns)
        THEN ns[d.nodes[i] + 1].var_index
        ELSE d.nodes[i]]]

RewriteTerminals ==
    /\ pc = "idle"
    /\ finalized = 1
    /\ ~rewritten
    /\ devices' = [i \in 1..Len(devices) |-> RewriteNodes(devices[i], nodes)]
    /\ rewritten' = TRUE
    /\ ret' = RetVal("rewrite", 0)
    /\ UNCHANGED <<nodes, num_devices, num_vars, num_extra_vars, finalized,
                   x, ctx, pc, dc, heap, failed_finalize>>

-----------------------------------------------------------------------------

-----------------------------------------------------------------------------
(* Device stamps for DC analysis (the StampNonlinear hooks) *)

ResistorStampNonlinear_PositiveOffDiagonal(d, c) ==
    IF d.params = RZero THEN c
    ELSE LET g == RDiv(ROne, d.params)
             n1 == d.nodes[1]
             n2 == d.nodes[2]
             c1 == IF n1 >= 0 THEN CtxAddA(c, n1, n1, g) ELSE c
             c2 == IF n2 >= 0 THEN CtxAddA(c1, n2, n2, g) ELSE c1
         IN  IF n1 >= 0 /\ n2 >= 0
             THEN CtxAddA(CtxAddA(c2, n1, n2, RNeg(g)), n2, n1, g)
             ELSE c2

ResistorStampNonlinear(d, c) ==
    IF d.params = RZero THEN c
    ELSE LET g == RDiv(ROne, d.params)
             n1 == d.nodes[1]
             n2 == d.nodes[2]
             c1 == IF n1 >= 0 THEN CtxAddA(c, n1, n1, g) ELSE c
             c2 == IF n2 >= 0 THEN CtxAddA(c1, n2, n2, g) ELSE c1
         IN  IF n1 >= 0 /\ n2 >= 0
             THEN CtxAddA(CtxAddA(c2, n1, n2, RNeg(g)), n2, n1, RNeg(g))
             ELSE c2

CurrentSourceStampNonlinear(d, c) ==
    LET i == d.params
        n1 == d.nodes[1]
        n2 == d.nodes[2]
        c1 == IF n1 >= 0 THEN CtxAddZ(c, n1, RNeg(i)) ELSE c
    IN  IF n2 >= 0 THEN CtxAddZ(c1, n2, i) ELSE c1

\* the four unit entries shared by the voltage source and the inductor
BranchEntries(d, c) ==
    LET n1 == d.nodes[1]
        n2 == d.nodes[2]
        k == d.extra_var
        c1 == IF n1 >= 0
              THEN CtxAddA(CtxAddA(c, n1, k, ROne), k, n1, ROne)
              ELSE c
    IN  IF n2 >= 0
        THEN CtxAddA(CtxAddA(c1, n2, k, RNeg(ROne)), k, n2, RNeg(ROne))
        ELSE c1

VoltageSourceStampNonlinear_SkipsGroundedRhs(d, c) ==
    IF d.extra_var < 0 THEN c
    ELSE IF d.nodes[2] < 0 THEN BranchEntries(d, c)
    ELSE CtxAddZ(BranchEntries(d, c), d.extra_var, d.params)

VoltageSourceStampNonlinear(d, c) ==
    IF d.extra_var < 0 THEN c
    ELSE CtxAddZ(BranchEntries(d, c), d.extra_var, d.params)

CapacitorStampNonlinear(d, c) == c

InductorStampNonlinear_AddsRhs(d, c) ==
    IF d.extra_var < 0 THEN c
    ELSE CtxAddZ(BranchEntries(d, c), d.extra_var, d.params)

InductorStampNonlinear(d, c) ==
    IF d.extra_var < 0 THEN c ELSE BranchEntries(d, c)

\* a null double* (x_current or x_prev not supplied): a vector without cells
NullVec == <<>>

\* IterationState {iter, x_current, tol_rel, tol_abs}: no hook reads the
\* tolerances, so only iter and x_current are kept
IterationState(iter, xs) == [iter |-> iter, x_current |-> xs]

kVT == Rat(6463, 250000)      \* 0.025852 V
kVdLimit == Rat(7, 10)        \* vd_limit = 0.7 V
kGmin == ROne                 \* the floor 1e-12 S, in pS

Floor(q) == q[1] \div q[2]

\* exp() has no rational value; it is replaced by a strictly increasing
\* positive stand-in with Exp(0) = 1: 1 + floor(q) for q >= 0 and
\* 1 / (1 - floor(q)) for q < 0
Exp(q) == IF q[1] >= 0 THEN RInt(1 + Floor(q)) ELSE Rat(1, 1 - Floor(q))

DiodeStampNonlinear_UnflooredOffDiagonal(d, c, it) ==
    IF it.x_current = NullVec THEN c
    ELSE LET n_anode == d.nodes[1]
             n_cathode == d.nodes[2]
             v_anode == IF n_anode >= 0 THEN it.x_current[n_anode + 1] ELSE RZero
             v_cathode == IF n_cathode >= 0 THEN it.x_current[n_cathode + 1] ELSE RZero
             n_vt == RMul(d.params.n, kVT)
             vd_lo == RMul(RInt(-15), n_vt)
             vd0 == RSub(v_anode, v_cathode)
             vd1 == IF RGt(vd0, kVdLimit) THEN kVdLimit ELSE vd0
             vd == IF RLt(vd1, vd_lo) THEN vd_lo ELSE vd1
             exp_term == Exp(RDiv(vd, n_vt))
             i_d == RMul(d.params.i_s, RSub(exp_term, ROne))
             g0 == RMul(RDiv(d.params.i_s, n_vt), exp_term)
             g_eq == IF RLt(g0, kGmin) THEN kGmin ELSE g0
             i_eq == RSub(i_d, RMul(g_eq, vd))
             c1 == IF n_anode >= 0 THEN CtxAddA(c, n_anode, n_anode, g_eq) ELSE c
             c2 == IF n_cathode >= 0 THEN CtxAddA(c1, n_cathode, n_cathode, g_eq) ELSE c1
             c3 == IF n_anode >= 0 /\ n_cathode >= 0
                   THEN CtxAddA(CtxAddA(c2, n_anode, n_cathode, RNeg(g0)),
                                n_cathode, n_anode, RNeg(g_eq))
                   ELSE c2
             c4 == IF n_anode >= 0 THEN CtxAddZ(c3, n_anode, RNeg(i_eq)) ELSE c3
         IN  IF n_cathode >= 0 THEN CtxAddZ(c4, n_cathode, i_eq) ELSE c4

DiodeStampNonlinear(d, c, it) ==
    IF it.x_current = NullVec THEN c
    ELSE LET n_anode == d.nodes[1]
             n_cathode == d.nodes[2]
             v_anode == IF n_anode >= 0 THEN it.x_current[n_anode + 1] ELSE RZero
             v_cathode == IF n_cathode >= 0 THEN it.x_current[n_cathode + 1] ELSE RZero
             n_vt == RMul(d.params.n, kVT)
             vd_lo == RMul(RInt(-15), n_vt)
             vd0 == RSub(v_anode, v_cathode)
             vd1 == IF RGt(vd0, kVdLimit) THEN kVdLimit ELSE vd0
             vd == IF RLt(vd1, vd_lo) THEN vd_lo ELSE vd1
             exp_term == Exp(RDiv(vd, n_vt))
             i_d == RMul(d.params.i_s, RSub(exp_term, ROne))
             g0 == RMul(RDiv(d.params.i_s, n_vt), exp_term)
             g_eq == IF RLt(g0, kGmin) THEN kGmin ELSE g0
             i_eq == RSub(i_d, RMul(g_eq, vd))
             c1 == IF n_anode >= 0 THEN CtxAddA(c, n_anode, n_anode, g_eq) ELSE c
             c2 == IF n_cathode >= 0 THEN CtxAddA(c1, n_cathode, n_cathode, g_eq) ELSE c1
             c3 == IF n_anode >= 0 /\ n_cathode >= 0
                   THEN CtxAddA(CtxAddA(c2, n_anode, n_cathode, RNeg(g_eq)),
                                n_cathode, n_anode, RNeg(g_eq))
                   ELSE c2
             c4 == IF n_anode >= 0 THEN CtxAddZ(c3, n_anode, RNeg(i_eq)) ELSE c3
         IN  IF n_cathode >= 0 THEN CtxAddZ(c4, n_cathode, i_eq) ELSE c4

\* d->vt->StampNonlinear(d, ctx, &it)
StampNonlinear(d, c, it) ==
    CASE d.kind = "R" -> ResistorStampNonlinear(d, c)
      [] d.kind = "I" -> CurrentSourceStampNonlinear(d, c)
      [] d.kind = "V" -> VoltageSourceStampNonlinear(d, c)
      [] d.kind = "C" -> CapacitorStampNonlinear(d, c)
      [] d.kind = "L" -> InductorStampNonlinear(d, c)
      [] d.kind = "D" -> DiodeStampNonlinear(d, c, it)

-----------------------------------------------------------------------------
(* Transient stamps (the StampTransient hooks) *)

\* IntegrationMethod {name, order, alpha0..2, beta0..2, required_history}
kBackwardEuler ==
    [name |-> "backward_euler", order |-> 1,
     alpha0 |-> ROne, alpha1 |-> ROne, alpha2 |-> RZero,
     beta0 |-> ROne, beta1 |-> ROne, beta2 |-> RZero, required_history |-> 1]

kTrapezoidal ==
    [name |-> "trapezoidal", order |-> 2,
     alpha0 |-> RInt(2), alpha1 |-> RInt(2), alpha2 |-> RZero,
     beta0 |-> RInt(2), beta1 |-> RInt(2), beta2 |-> RZero, required_history |-> 1]

kGear2 ==
    [name |-> "gear2", order |-> 2,
     alpha0 |-> Rat(3, 2), alpha1 |-> RInt(2), alpha2 |-> Rat(-1, 2),
     beta0 |-> Rat(3, 2), beta1 |-> RInt(2), beta2 |-> Rat(-1, 2),
     required_history |-> 2]

\* TimeStepState {t, h, x_prev, x_prev2, im}
TimeStepState(t, h, x_prev, x_prev2, im) ==
    [t |-> t, h |-> h, x_prev |-> x_prev, x_prev2 |-> x_prev2, im |-> im]

\* IterationState it = {0, nullptr, 0.0, 0.0}; ...StampNonlinear(d, ctx, &it)
ResistorStampTransient(d, c, ts) == ResistorStampNonlinear(d, c)

CurrentSourceStampTransient(d, c, ts) == CurrentSourceStampNonlinear(d, c)

VoltageSourceStampTransient(d, c, ts) == VoltageSourceStampNonlinear(d, c)

DiodeStampTransient_UsesOlderStep(d, c, ts) ==
    DiodeStampNonlinear(d, c, IterationState(0, ts.x_prev2))

\* IterationState it = {0, ts->x_prev, 1e-6, 1e-9}
DiodeStampTransient(d, c, ts) ==
    DiodeStampNonlinear(d, c, IterationState(0, ts.x_prev))

MemorylessKinds == {"R", "I", "V", "D"}

\* the companion model of the capacitor: a conductance g_eq between the
\* terminals and a history current i_eq; s is what the hook reads through
\* d->state, which it does not compare with nullptr
CapacitorStampTransient(d, c, ts, s) ==
    LET im == ts.im
        c_h == RDiv(d.params, ts.h)
        g_eq == RMul(im.alpha0, c_h)
        i1 == RMul(RMul(im.alpha1, c_h), s.prev)
        i2 == IF im.required_history >= 2
              THEN RAdd(i1, RMul(RMul(im.alpha2, c_h), s.prev2)) ELSE i1
        i_eq == IF im.name = "trapezoidal" THEN RAdd(i2, s.aux) ELSE i2
        n1 == d.nodes[1]
        n2 == d.nodes[2]
        c1 == IF n1 >= 0 THEN CtxAddA(c, n1, n1, g_eq) ELSE c
        c2 == IF n2 >= 0 THEN CtxAddA(c1, n2, n2, g_eq) ELSE c1
        c3 == IF n1 >= 0 /\ n2 >= 0
              THEN CtxAddA(CtxAddA(c2, n1, n2, RNeg(g_eq)), n2, n1, RNeg(g_eq))
              ELSE c2
        c4 == IF n1 >= 0 THEN CtxAddZ(c3, n1, RNeg(i_eq)) ELSE c3
    IN  IF n2 >= 0 THEN CtxAddZ(c4, n2, i_eq) ELSE c4

\* the companion model of the inductor: the branch equation
\* v(n1) - v(n2) - r_eq * i = -v_eq; returns at once without a state block
\* or a branch index
InductorStampTransient(d, c, ts) ==
    IF d.state = NoState \/ d.extra_var < 0 THEN c
    ELSE LET im == ts.im
             s == d.state
             l_h == RDiv(d.params, ts.h)
             k == d.extra_var
             r_eq == RMul(im.beta0, l_h)
             v1 == RMul(RMul(im.beta1, l_h), s.prev)
             v2 == IF im.required_history >= 2
                   THEN RAdd(v1, RMul(RMul(im.beta2, l_h), s.prev2)) ELSE v1
             v_eq == IF im.name = "trapezoidal" THEN RAdd(v2, s.aux) ELSE v2
         IN  CtxAddZ(CtxAddA(BranchEntries(d, c), k, k, RNeg(r_eq)), k, RNeg(v_eq))

\* d->vt->StampTransient(d, ctx, &ts); s is the state block the capacitor's
\* hook reads
StampTransient(d, c, ts, s) ==
    CASE d.kind = "R" -> ResistorStampTransient(d, c, ts)
      [] d.kind = "I" -> CurrentSourceStampTransient(d, c, ts)
      [] d.kind = "V" -> VoltageSourceStampTransient(d, c, ts)
      [] d.kind = "C" -> CapacitorStampTransient(d, c, ts, s)
      [] d.kind = "L" -> InductorStampTransient(d, c, ts)
      [] d.kind = "D" -> DiodeStampTransient(d, c, ts)

-----------------------------------------------------------------------------
(* The UpdateState hooks *)

CapacitorUpdateState_KeepsOlder(d, xs, ts) ==
    IF d.state = NoState THEN d
    ELSE LET n1 == d.nodes[1]
             n2 == d.nodes[2]
             v1 == IF n1 >= 0 THEN xs[n1 + 1] ELSE RZero
             v2 == IF n2 >= 0 THEN xs[n2 + 1] ELSE RZero
             v == RSub(v1, v2)
             s == d.state
             i_prev == IF ts.im.name = "trapezoidal"
                       THEN RSub(RMul(RDiv(RMul(RInt(2), d.params), ts.h),
                                      RSub(v, s.prev)), s.aux)
                       ELSE s.aux
         IN  [d EXCEPT !.state = [prev |-> v, prev2 |-> s.prev2, aux |-> i_prev]]

\* v = x[n1] - x[n2]; under the trapezoidal method i_prev is recomputed
\* from the old v_prev and i_prev first; then v_prev2 = v_prev, v_prev = v
CapacitorUpdateState(d, xs, ts) ==
    IF d.state = NoState THEN d
    ELSE LET n1 == d.nodes[1]
             n2 == d.nodes[2]
             v1 == IF n1 >= 0 THEN xs[n1 + 1] ELSE RZero
             v2 == IF n2 >= 0 THEN xs[n2 + 1] ELSE RZero
             v == RSub(v1, v2)
             s == d.state
             i_prev == IF ts.im.name = "trapezoidal"
                       THEN RSub(RMul(RDiv(RMul(RInt(2), d.params), ts.h),
                                      RSub(v, s.prev)), s.aux)
                       ELSE s.aux
         IN  [d EXCEPT !.state = [prev |-> v, prev2 |-> s.prev, aux |-> i_prev]]

\* i = x[k]; under the trapezoidal method v_prev becomes x[n1] - x[n2];
\* then i_prev2 = i_prev, i_prev = i
InductorUpdateState(d, xs, ts) ==
    IF d.state = NoState \/ d.extra_var < 0 THEN d
    ELSE LET n1 == d.nodes[1]
             n2 == d.nodes[2]
             s == d.state
             i == xs[d.extra_var + 1]
             v1 == IF n1 >= 0 THEN xs[n1 + 1] ELSE RZero
             v2 == IF n2 >= 0 THEN xs[n2 + 1] ELSE RZero
             v_prev == IF ts.im.name = "trapezoidal" THEN RSub(v1, v2) ELSE s.aux
         IN  [d EXCEPT !.state = [prev |-> i, prev2 |-> s.prev, aux |-> v_prev]]

\* d->vt->UpdateState(d, x, &ts): the hooks of the memoryless devices have
\* empty bodies
UpdateState(d, xs, ts) ==
    CASE d.kind = "C" -> CapacitorUpdateState(d, xs, ts)
      [] d.kind = "L" -> InductorUpdateState(d, xs, ts)
      [] d.kind \in MemorylessKinds -> d

-----------------------------------------------------------------------------
(* solve_dense_system: Gaussian elimination with partial pivoting *)

kPivotExp == 15     \* the singular threshold is 10^-15

\* n * 10^e < d for naturals n, d, e, without forming 10^e
RECURSIVE LtPow10(_, _, _)
LtPow10(n, d, e) == IF e = 0 THEN n < d ELSE LtPow10(n, (d + 9) \div 10, e - 1)

\* maxv < 1e-15
BelowPivotTol(v) == LtPow10(Abs(v[1]), v[2], kPivotExp)

Cell(M, n, i, j) == M[i * n + j + 1]

\* the pivot search of column k: rows i = from..n-1, strict > keeps the first
RECURSIVE PivotScan(_, _, _, _, _, _)
PivotScan(M, n, k, i, p, maxv) ==
    IF i >= n THEN [p |-> p, maxv |-> maxv]
    ELSE LET v == RAbs(Cell(M, n, i, k))
         IN  IF RGt(v, maxv)
             THEN PivotScan(M, n, k, i + 1, i, v)
             ELSE PivotScan(M, n, k, i + 1, p, maxv)

FindPivot(M, n, k) == PivotScan(M, n, k, k + 1, k, RAbs(Cell(M, n, k, k)))

SwapRows(M, n, k, p) ==
    [idx \in 1..(n * n) |->
        LET i == (idx - 1) \div n
            j == (idx - 1) % n
        IN  IF i = k THEN Cell(M, n, p, j)
            ELSE IF i = p THEN Cell(M, n, k, j)
            ELSE M[idx]]

SwapCells_KeepsRhs(v, k, p) == v

\* the same row exchange on the right-hand side
SwapCells(v, k, p) ==
    [i \in 1..Len(v) |-> IF i = k + 1 THEN v[p + 1]
                          ELSE IF i = p + 1 THEN v[k + 1] ELSE v[i]]

\* rows below the pivot: M[i,j] -= factor * M[k,j] for j >= k
EliminateM(M, n, k) ==
    [idx \in 1..(n * n) |->
        LET i == (idx - 1) \div n
            j == (idx - 1) % n
            factor == RDiv(Cell(M, n, i, k), Cell(M, n, k, k))
        IN  IF i > k /\ j >= k
            THEN RSub(M[idx], RMul(factor, Cell(M, n, k, j)))
            ELSE M[idx]]

EliminateRhs(M, rhs, n, k) ==
    [r \in 1..n |->
        IF r - 1 > k
        THEN RSub(rhs[r], RMul(RDiv(Cell(M, n, r - 1, k), Cell(M, n, k, k)), rhs[k + 1]))
        ELSE rhs[r]]

\* the elimination loop from column k on; singular as soon as a pivot is too small
RECURSIVE Eliminate(_, _, _, _)
Eliminate(M, rhs, n, k) ==
    IF k >= n THEN [singular |-> FALSE, M |-> M, rhs |-> rhs]
    ELSE LET pv == FindPivot(M, n, k)
         IN  IF BelowPivotTol(pv.maxv)
             THEN [singular |-> TRUE, M |-> M, rhs |-> rhs]
             ELSE LET M1 == IF pv.p # k THEN SwapRows(M, n, k, pv.p) ELSE M
                      r1 == IF pv.p # k THEN SwapCells(rhs, k, pv.p) ELSE rhs
                  IN  Eliminate(EliminateM(M1, n, k), EliminateRhs(M1, r1, n, k),
                                n, k + 1)

RECURSIVE RowSum(_, _, _, _, _, _)
RowSum(M, xs, n, i, j, sum) ==
    IF j >= n THEN sum
    ELSE RowSum(M, xs, n, i, j + 1, RSub(sum, RMul(Cell(M, n, i, j), xs[j + 1])))

RECURSIVE BackSubstitute(_, _, _, _, _)
BackSubstitute(M, rhs, xs, n, i) ==
    IF i < 0 THEN xs
    ELSE BackSubstitute(M, rhs,
            [xs EXCEPT ![i + 1] = RDiv(RowSum(M, xs, n, i, i + 1, rhs[i + 1]),
                                       Cell(M, n, i, i))],
            n, i - 1)

\* mallocOk: the set of the work arrays "M", "rhs" that malloc returned
solve_dense_system(n, A, b, xs, mallocOk) ==
    IF mallocOk # {"M", "rhs"} THEN [code |-> -1, x |-> xs]
    ELSE LET e == Eliminate(A, b, n, 0)
         IN  IF e.singular THEN [code |-> -2, x |-> xs]
             ELSE [code |-> 0, x |-> BackSubstitute(e.M, e.rhs, xs, n, n - 1)]

-----------------------------------------------------------------------------
(* circuit_dc_analysis *)

Buffers == {"A", "z", "x_new", "delta"}
Resources == Buffers \cup {"ctx", "M", "rhs"}

NoDc == [null |-> TRUE]
NoHeap == [null |-> TRUE]

EmptyHeap == [allocs |-> [r \in Resources |-> 0], frees |-> [r \in Resources |-> 0]]

Alloc(h, rs) == [h EXCEPT !.allocs = [r \in Resources |-> IF r \in rs THEN @[r] + 1 ELSE @[r]]]

\* free(p) of every resource in rs; free(NULL) is a no-op and is not listed
Free(h, rs) == [h EXCEPT !.frees = [r \in Resources |-> IF r \in rs THEN @[r] + 1 ELSE @[r]]]

\* which of the four calloc calls return memory: all, none, all but the last
AllocOutcomes == {Buffers, {}, Buffers \ {"delta"}}

\* the values max_iter, (tol_abs, tol_rel) a caller passes
MaxIterInputs == {-1, 0, 1, 3}
TolInputs == {<<Rat(1, 1000), Rat(1, 1000)>>}

\* the convergence loop: every |delta[i]| <= tol_abs + tol_rel * |x[i]|
Converged(delta, xs, tol_abs, tol_rel) ==
    \A i \in 1..Len(delta) :
        ~RGt(RAbs(delta[i]), RAdd(tol_abs, RMul(tol_rel, RAbs(xs[i]))))

\* lines 277-311: the guards, the allocations, the zeroed guess, the context
DcCall(max_iter, tol, got, ctxOk) ==
    /\ pc = "idle"
    /\ IF finalized = 0 \/ num_vars = 0
       THEN /\ got = Buffers /\ ctxOk
            /\ ret' = RetVal("dc_analysis", -1)
            /\ UNCHANGED <<x, ctx, pc, dc, heap>>
       ELSE LET n == num_vars
                h1 == Alloc(EmptyHeap, got)
            IN  IF got # Buffers
                THEN /\ ctxOk
                     /\ heap' = Free(h1, got)
                     /\ ret' = RetVal("dc_analysis", -1)
                     /\ x' = IF Len(x) = n THEN x ELSE ZeroVec(n)
                     /\ UNCHANGED <<ctx, pc, dc>>
                ELSE IF ~ctxOk
                THEN /\ heap' = Free(h1, Buffers)
                     /\ ret' = RetVal("dc_analysis", -1)
                     /\ x' = ZeroVec(n)
                     /\ UNCHANGED <<ctx, pc, dc>>
                ELSE /\ heap' = Alloc(h1, {"ctx"})
                     /\ x' = ZeroVec(n)
                     /\ ctx' = CtxCreate(n)
                     /\ dc' = [n |-> n, iter |-> 0, max_iter |-> max_iter,
                               tol_abs |-> tol[1], tol_rel |-> tol[2],
                               A |-> ZeroVec(n * n), z |-> ZeroVec(n),
                               x_new |-> ZeroVec(n), delta |-> ZeroVec(n),
                               cursor |-> 0, converged |-> FALSE, passes |-> 0,
                               stamped |-> <<>>]
                     /\ pc' = "loop"
                     /\ ret' = RetVal("running", 0)
    /\ UNCHANGED circuitVars

DcLoop_SkipsHead ==
    /\ pc = "loop"
    /\ IF dc.iter < dc.max_iter
       THEN /\ ctx' = CtxReset(ctx)
            /\ dc' = [dc EXCEPT !.cursor = 2, !.stamped = <<>>]
            /\ pc' = "stamp"
       ELSE /\ pc' = "exit"
            /\ UNCHANGED <<ctx, dc>>
    /\ UNCHANGED <<circuitVars, ret, x, heap>>

\* for (iter = 0; iter < max_iter; ...): ctx_reset, or leave the loop
DcLoop ==
    /\ pc = "loop"
    /\ IF dc.iter < dc.max_iter
       THEN /\ ctx' = CtxReset(ctx)
            /\ dc' = [dc EXCEPT !.cursor = 1, !.stamped = <<>>]
            /\ pc' = "stamp"
       ELSE /\ pc' = "exit"
            /\ UNCHANGED <<ctx, dc>>
    /\ UNCHANGED <<circuitVars, ret, x, heap>>

\* one turn of for (Device* d = c->devices; d; d = d->next)
DcStamp ==
    /\ pc = "stamp"
    /\ dc.cursor <= Len(devices)
    /\ ctx' = StampNonlinear(devices[dc.cursor], ctx, IterationState(dc.iter, x))
    /\ dc' = [dc EXCEPT !.cursor = @ + 1,
                        !.stamped = Append(@, devices[dc.cursor].name)]
    /\ UNCHANGED <<circuitVars, ret, x, pc, heap>>

\* memset(A), ctx_assemble_dense, memcpy(z, ctx_get_z(ctx))
DcAssemble ==
    /\ pc = "stamp"
    /\ dc.cursor > Len(devices)
    /\ ctx' = AssembledContext(ctx)
    /\ dc' = [dc EXCEPT !.A = CtxAssembleDense(ctx), !.z = AssembledContext(ctx).z_]
    /\ pc' = "solve"
    /\ UNCHANGED <<circuitVars, ret, x, heap>>

SolveFailureFrees_LeaksCtx == Buffers

\* what the failure return of lines 337-345 releases
SolveFailureFrees == Buffers \cup {"ctx"}

\* solve_dense_system and the failure return of lines 337-345
DcSolve(mallocOk) ==
    /\ pc = "solve"
    /\ LET r == solve_dense_system(dc.n, dc.A, dc.z, dc.x_new, mallocOk)
           h1 == Free(Alloc(heap, mallocOk), mallocOk)
       IN  IF r.code # 0
           THEN /\ heap' = Free(h1, SolveFailureFrees)
                /\ ctx' = IF "ctx" \in SolveFailureFrees THEN NoCtx ELSE ctx
                /\ ret' = RetVal("dc_analysis", -1)
                /\ dc' = NoDc
                /\ pc' = "idle"
           ELSE /\ heap' = h1
                /\ dc' = [dc EXCEPT !.x_new = r.x, !.passes = @ + 1]
                /\ pc' = "update"
                /\ UNCHANGED <<ctx, ret>>
    /\ UNCHANGED <<circuitVars, x>>

LoopBreaks_ToleranceOnly(conv, iter) == conv

\* if (converged || iter == 0) { iter++; break; }
LoopBreaks(conv, iter) == conv \/ iter = 0

\* delta, memcpy(x, x_new), the tolerance test and the loop's break / iter++
DcUpdate ==
    /\ pc = "update"
    /\ LET delta == [i \in 1..dc.n |-> RSub(dc.x_new[i], x[i])]
           conv == Converged(delta, dc.x_new, dc.tol_abs, dc.tol_rel)
       IN  /\ x' = dc.x_new
           /\ dc' = [dc EXCEPT !.delta = delta, !.converged = conv, !.iter = @ + 1]
           /\ pc' = IF LoopBreaks(conv, dc.iter) THEN "exit" ELSE "loop"
    /\ UNCHANGED <<circuitVars, ret, ctx, heap>>

\* lines 376-382: release everything and return iter
DcExit ==
    /\ pc = "exit"
    /\ heap' = Free(heap, Buffers \cup {"ctx"})
    /\ ctx' = NoCtx
    /\ ret' = RetVal("dc_analysis", dc.iter)
    /\ dc' = NoDc
    /\ pc' = "idle"
    /\ UNCHANGED <<circuitVars, x>>

\* the node indices a caller passes as the two terminals of a new device:
\* indices circuit_add_node has returned so far, first terminal the later node
TerminalInputs ==
    IF num_nodes = 1 THEN {<<0, 0>>}
    ELSE {t \in (0..(num_nodes - 1)) \X (0..(num_nodes - 1)) : t[1] > t[2]}

\* circuit_create
Init ==
    /\ nodes = <<[name |-> <<"0">>, var_index |-> -1]>>
    /\ devices = <<>>
    /\ num_devices = 0
    /\ num_vars = 0
    /\ num_extra_vars = 0
    /\ finalized = 0
    /\ rewritten = FALSE
    /\ ret = RetVal("create", 0)
    /\ x = <<>>
    /\ ctx = NoCtx
    /\ pc = "idle"
    /\ dc = NoDc
    /\ heap = NoHeap
    /\ failed_finalize = FALSE

Next ==
    \/ \E name \in NameInputs : circuit_add_node(name)
    \/ \E kind \in DeviceKinds, t \in TerminalInputs, val \in ParamInputs :
          circuit_add_device(kind, t[1], t[2], val)
    \/ circuit_finalize /\ UNCHANGED failed_finalize
    \/ RewriteTerminals
    \/ \E max_iter \in MaxIterInputs, tol \in TolInputs, got \in AllocOutcomes,
          ctxOk \in BOOLEAN : DcCall(max_iter, tol, got, ctxOk)
    \/ DcLoop
    \/ DcStamp
    \/ DcAssemble
    \/ \E mallocOk \in SUBSET {"M", "rhs"} : DcSolve(mallocOk)
    \/ DcUpdate
    \/ DcExit

Spec == Init /\ [][Next]_vars

-----------------------------------------------------------------------------
(* The StampContext driven on its own, as a device test or a stamp does *)

\* the sizes, indices and values a caller passes to the context
CtxSizeInputs == {-1, 0, 1}
IndexInputs ==
    IF ctx = NoCtx THEN {-1, 0} ELSE {-1, 0, ctx.num_vars_ - 1, ctx.num_vars_}
AValInputs == {RZero, ROne}
ZValInputs == {ROne}

\* the sum of the |z[i]| over the first n cells (all cells hold integers here)
RECURSIVE ZMagnitude(_, _)
ZMagnitude(z, n) == IF n = 0 THEN 0 ELSE Abs(z[n][1]) + ZMagnitude(z, n - 1)

ctx_create(n) ==
    /\ pc = "idle"
    /\ ctx = NoCtx
    /\ ctx' = CtxCreate(n)
    /\ ret' = CallVal("ctx_create", <<n>>, IF CtxCreate(n) = NoCtx THEN 0 ELSE 1)
    /\ UNCHANGED <<circuitVars, x, pc, dc, heap>>

ctx_free ==
    /\ pc = "idle"
    /\ ctx # NoCtx
    /\ ctx' = NoCtx
    /\ ret' = RetVal("ctx_free", 0)
    /\ UNCHANGED <<circuitVars, x, pc, dc, heap>>

ctx_reset ==
    /\ pc = "idle"
    /\ ctx # NoCtx
    /\ ctx' = CtxReset(ctx)
    /\ ret' = RetVal("ctx_reset", 0)
    /\ UNCHANGED <<circuitVars, x, pc, dc, heap>>

ctx_add_A(row, col, val) ==
    /\ pc = "idle"
    /\ ctx # NoCtx
    /\ Len(ctx.triplets_) < MaxTriplets
    /\ ctx' = CtxAddA(ctx, row, col, val)
    /\ ret' = CallVal("ctx_add_A", <<row, col, val>>, 0)
    /\ UNCHANGED <<circuitVars, x, pc, dc, heap>>

ctx_add_z(idx, val) ==
    /\ pc = "idle"
    /\ ctx # NoCtx
    /\ ctx' = CtxAddZ(ctx, idx, val)
    /\ ZMagnitude(ctx'.z_, Len(ctx'.z_)) <= MaxZ
    /\ ret' = CallVal("ctx_add_z", <<idx, val>>, 0)
    /\ UNCHANGED <<circuitVars, x, pc, dc, heap>>

\* CtxAssembleDense(ctx, matrix); the call returns at once for a null ctx or
\* a null matrix, otherwise it fills the caller's matrix. The matrix as the
\* call leaves it is recorded as the argument: NullVec for a null matrix, an
\* untouched one-cell buffer when there is no context
ctx_assemble_dense(hasMatrix) ==
    /\ pc = "idle"
    /\ ctx' = IF ctx = NoCtx \/ ~hasMatrix THEN ctx ELSE AssembledContext(ctx)
    /\ ret' = CallVal("ctx_assemble_dense",
                      <<IF ~hasMatrix THEN NullVec
                        ELSE IF ctx = NoCtx THEN <<RZero>>
                        ELSE CtxAssembleDense(ctx)>>, 0)
    /\ UNCHANGED <<circuitVars, x, pc, dc, heap>>

ctx_alloc_extra_var ==
    /\ pc = "idle"
    /\ ctx # NoCtx
    /\ CtxAllocIdx(ctx) + 1 <= MaxCtxVars
    /\ ctx' = CtxAllocExtraVar(ctx)
    /\ ret' = RetVal("ctx_alloc_extra_var", CtxAllocIdx(ctx))
    /\ UNCHANGED <<circuitVars, x, pc, dc, heap>>

NextCtx ==
    \/ \E n \in CtxSizeInputs : ctx_create(n)
    \/ ctx_free
    \/ ctx_reset
    \/ \E row \in IndexInputs, col \in IndexInputs, val \in AValInputs :
          ctx_add_A(row, col, val)
    \/ \E idx \in IndexInputs, val \in ZValInputs : ctx_add_z(idx, val)
    \/ ctx_alloc_extra_var
    \/ \E hasMatrix \in BOOLEAN : ctx_assemble_dense(hasMatrix)

SpecCtx == Init /\ [][NextCtx]_vars

-----------------------------------------------------------------------------
(* One device driven on its own with a fresh context, as a device test does. *)
(* `devices` holds the device under test, `ctx` the fixture's context.       *)

DevCtxSize == 3     \* ctx = CtxCreate(3): two node variables and one branch

nonPcVars == <<nodes, num_devices, num_vars, num_extra_vars, finalized,
               rewritten, x, dc, heap, failed_finalize>>

nonDeviceVars == <<nonPcVars, pc>>

\* terminals, values and vectors a test passes
DevTerminalInputs == {-1, 0, 1}
DevValueInputs == {RZero, RInt(2)}
DiodeParamInputs == {<<Rat(1, 100), ROne>>}
BranchInputs == {DevCtxSize - 1}

XVec(a, b) ==
    [i \in 1..DevCtxSize |-> IF i = 1 THEN a ELSE IF i = 2 THEN b ELSE RZero]

XVecInputs == {NullVec, XVec(RZero, RZero), XVec(Rat(3, 5), RZero), XVec(RZero, ROne)}

TimeStepInputs ==
    {TimeStepState(RZero, ROne, xp, XVec(RZero, RZero), kBackwardEuler) : xp \in XVecInputs}
    \cup {TimeStepState(ROne, Rat(1, 2), xp, XVec(RZero, RZero), kTrapezoidal) : xp \in XVecInputs}
    \cup {TimeStepState(ROne, ROne, xp, XVec(RZero, RZero), kGear2) : xp \in XVecInputs}

\* the solutions a converged step hands to UpdateState
SolutionInputs == {<<Rat(3, 5), RZero, ROne>>, <<RZero, ROne, RInt(2)>>}

\* UpdateState reads the method and h only
UpdateStepInputs == {ts \in TimeStepInputs : ts.x_prev = NullVec}

\* CapacitorStampTransient reads d->state without a null check: with no state
\* block the read is undefined, so the call may fault or go on with whatever
\* the read produced
AbsentStateReads == {ZeroState, [prev |-> ROne, prev2 |-> ROne, aux |-> ROne]}

StateReads(d) == IF d.state = NoState THEN AbsentStateReads ELSE {d.state}

FaultsOnRead(d) == d.kind = "C" /\ d.state = NoState

\* the context as SetUp or a reset leaves it
Fresh(c) == c # NoCtx /\ CtxReset(c) = c

\* SetUp and one of the two-terminal factories
create_device(kind, n1, n2, val) ==
    /\ pc = "idle"
    /\ devices = <<>>
    /\ ctx = NoCtx
    /\ devices' = <<CreateDevice(kind, 1, n1, n2, val)>>
    /\ ctx' = CtxCreate(DevCtxSize)
    /\ ret' = CallVal("create_device", <<kind>>, 1)
    /\ UNCHANGED nonDeviceVars

create_diode(n_anode, n_cathode, I_s, n) ==
    /\ pc = "idle"
    /\ devices = <<>>
    /\ ctx = NoCtx
    /\ devices' = <<CreateDiode(1, n_anode, n_cathode, I_s, n)>>
    /\ ctx' = CtxCreate(DevCtxSize)
    /\ ret' = CallVal("create_device", <<"D">>, 1)
    /\ UNCHANGED nonDeviceVars

\* d->vt->Init(d, nullptr)
device_init ==
    /\ pc = "idle"
    /\ Len(devices) = 1
    /\ devices' = <<DeviceInit(devices[1])>>
    /\ ret' = RetVal("device_init", 0)
    /\ UNCHANGED <<nonDeviceVars, ctx>>

\* v->extra_var = 2: the test stands in for finalize
set_extra_var(k) ==
    /\ pc = "idle"
    /\ Len(devices) = 1
    /\ devices[1].kind \in {"V", "L"}
    /\ devices' = <<[devices[1] EXCEPT !.extra_var = k]>>
    /\ ret' = CallVal("set_extra_var", <<k>>, 0)
    /\ UNCHANGED <<nonDeviceVars, ctx>>

\* IterationState it = {0, x, 1e-9, 1e-6}; d->vt->StampNonlinear(d, ctx, &it)
stamp_nonlinear(xs) ==
    /\ pc = "idle"
    /\ Len(devices) = 1
    /\ Fresh(ctx)
    /\ ctx' = StampNonlinear(devices[1], ctx, IterationState(0, xs))
    /\ ret' = CallVal("stamp_nonlinear", <<xs>>, 0)
    /\ UNCHANGED <<nonDeviceVars, devices>>

\* d->vt->StampTransient(d, ctx, &ts)
stamp_transient(ts) ==
    /\ pc = "idle"
    /\ Len(devices) = 1
    /\ Fresh(ctx)
    /\ \/ /\ FaultsOnRead(devices[1])
          /\ pc' = "fault"
          /\ ctx' = ctx
       \/ /\ \E s \in StateReads(devices[1]) :
                 ctx' = StampTransient(devices[1], ctx, ts, s)
          /\ pc' = pc
    /\ ret' = CallVal("stamp_transient", <<ts>>, 0)
    /\ UNCHANGED <<nonPcVars, devices>>

\* d->vt->UpdateState(d, x, &ts) after a converged step
update_state(xs, ts) ==
    /\ pc = "idle"
    /\ Len(devices) = 1
    /\ LET d == UpdateState(devices[1], xs, ts)
       IN  /\ d.state # NoState => Floor(RAbs(d.state.aux)) <= MaxHistory
           /\ devices' = <<d>>
    /\ ret' = CallVal("update_state", <<xs, ts>>, 0)
    /\ UNCHANGED <<nonDeviceVars, ctx>>

\* DeviceFree and TearDown
device_free ==
    /\ pc = "idle"
    /\ Len(devices) = 1
    /\ devices' = <<>>
    /\ ctx' = NoCtx
    /\ ret' = RetVal("device_free", 0)
    /\ UNCHANGED nonDeviceVars

NextDev ==
    \/ \E kind \in DeviceKinds, n1 \in DevTerminalInputs, n2 \in DevTerminalInputs,
          val \in DevValueInputs : create_device(kind, n1, n2, val)
    \/ \E n1 \in DevTerminalInputs, n2 \in DevTerminalInputs, p \in DiodeParamInputs :
          create_diode(n1, n2, p[1], p[2])
    \/ device_init
    \/ \E k \in BranchInputs : set_extra_var(k)
    \/ \E xs \in XVecInputs : stamp_nonlinear(xs)
    \/ \E ts \in TimeStepInputs : stamp_transient(ts)
    \/ \E xs \in SolutionInputs, ts \in UpdateStepInputs : update_state(xs, ts)
    \/ ctx_reset
    \/ device_free

SpecDev == Init /\ [][NextDev]_vars

-----------------------------------------------------------------------------
(* The netlist parser, and a parsed circuit handed to the DC analysis.       *)
(* A netlist is the sequence of its element lines after tokenizing: the type *)
(* letter, the two node labels and the value after parse_value.              *)

Element(type, n1, n2, value) == [type |-> type, n1 |-> n1, n2 |-> n2, value |-> value]

\* circuit_add_node on a circuit that is not finalized: the index returned
\* and the node table afterwards
AddNodeIndex(ns, name) ==
    IF is_ground_name(name) THEN 0
    ELSE IF FindNode(ns, name) >= 0 THEN FindNode(ns, name)
    ELSE Len(ns)

AddNodeTable(ns, name) ==
    IF is_ground_name(name) \/ FindNode(ns, name) >= 0 THEN ns
    ELSE Append(ns, [name |-> StrNCpy(name), var_index |-> -1])

\* parse_lines: every element line adds its two nodes, creates the device
\* with the two node indices and pushes it on the circuit; a line of an
\* unknown type is skipped
RECURSIVE ParseLines(_, _, _)
ParseLines(lines, ns, devs) ==
    IF lines = <<>> THEN [nodes |-> ns, devices |-> devs]
    ELSE LET l == Head(lines)
             n1 == AddNodeIndex(ns, l.n1)
             ns1 == AddNodeTable(ns, l.n1)
             n2 == AddNodeIndex(ns1, l.n2)
             ns2 == AddNodeTable(ns1, l.n2)
             name == Len(devs) + 1
             d == IF l.type = "D"
                  THEN CreateDiode(name, n1, n2, Rat(1, 100), ROne)
                  ELSE CreateDevice(l.type, name, n1, n2, l.value)
         IN  IF l.type \in DeviceKinds \cup {"D"}
             THEN ParseLines(Tail(lines), ns2, PushFront(d, devs))
             ELSE ParseLines(Tail(lines), ns, devs)

\* circuit_finalize of a circuit that is not finalized yet
FinalizeCircuit(ns, devs) ==
    LET nv == Len(ns) - 1
        g == GrantExtraVars(InitDevices(ClearExtraVars(devs)), nv, 0)
    IN  [ok |-> CtxCreate(nv) # NoCtx,
         nodes |-> AssignVarIndices(ns),
         devices |-> g.devs,
         num_extra_vars |-> g.nextra,
         num_vars |-> nv + g.nextra]

\* the loop after circuit_finalize: every terminal that holds a node index
\* is replaced by that node's var_index
RewriteDevices(devs, ns) == [i \in 1..Len(devs) |-> RewriteNodes(devs[i], ns)]

NullCircuit == 0

\* parse_netlist_string / parse_netlist_file: parse_lines on a new circuit,
\* circuit_finalize, then either circuit_free and nullptr or the rewrite loop
parse_netlist_string(netlist) ==
    /\ pc = "idle"
    /\ ret.op = "create"
    /\ LET p == ParseLines(netlist, nodes, devices)
           f == FinalizeCircuit(p.nodes, p.devices)
       IN  IF ~f.ok
           THEN /\ ret' = CallVal("parse", <<netlist>>, NullCircuit)
                /\ UNCHANGED circuitVars
           ELSE /\ nodes' = f.nodes
                /\ devices' = RewriteDevices(f.devices, f.nodes)
                /\ num_devices' = Len(f.devices)
                /\ num_vars' = f.num_vars
                /\ num_extra_vars' = f.num_extra_vars
                /\ finalized' = 1
                /\ rewritten' = TRUE
                /\ ret' = CallVal("parse", <<netlist>>, 1)
                /\ UNCHANGED failed_finalize
    /\ UNCHANGED <<x, ctx, pc, dc, heap>>

VPos == <<"v", "p", "o", "s">>
Mid == <<"m", "i", "d">>

\* V1 vpos 0 V / R1 vpos mid R1 / R2 mid 0 R2, in the two line orders that
\* number vpos first and mid first
DividerNetlists ==
    UNION {{ <<Element("V", VPos, <<"0">>, v), Element("R", VPos, Mid, r1),
               Element("R", Mid, <<"0">>, r2)>>,
             <<Element("R", Mid, <<"0">>, r2), Element("R", VPos, Mid, r1),
               Element("V", VPos, <<"0">>, v)>> } :
           v \in {RInt(5), RInt(-2)}, r1 \in {RInt(1000), Rat(1, 2)},
           r2 \in {RInt(1000), RInt(3)}}

\* element lines of every type (X: a type the parser does not know) on the
\* labels gnd, vpos and one longer than the name buffer
ElementInputs ==
    {Element(t, n1, n2, v) : t \in {"R", "V", "L", "D", "X"},
                            n1 \in {<<"G", "N", "D">>, VPos, LongName},
                            n2 \in {<<"G", "N", "D">>, VPos, LongName},
                            v \in ParamInputs}

NetlistInputs ==
    {<<>>} \cup {<<e>> : e \in ElementInputs}
           \cup {<<e1, e2>> : e1 \in ElementInputs, e2 \in ElementInputs}
           \cup DividerNetlists

\* the diode's values are held in pA and pS, so a circuit with a diode is not
\* handed to the solver together with devices held in A and S
NoDiode == \A i \in 1..Len(devices) : devices[i].kind # "D"

NextNet ==
    \/ \E netlist \in NetlistInputs : parse_netlist_string(netlist)
    \/ /\ NoDiode
       /\ \E max_iter \in MaxIterInputs, tol \in TolInputs, got \in AllocOutcomes,
             ctxOk \in BOOLEAN : DcCall(max_iter, tol, got, ctxOk)
    \/ DcLoop
    \/ DcStamp
    \/ DcAssemble
    \/ \E mallocOk \in SUBSET {"M", "rhs"} : DcSolve(mallocOk)
    \/ DcUpdate
    \/ DcExit

SpecNet == Init /\ [][NextNet]_vars

-----------------------------------------------------------------------------
(* Building and finalizing a circuit whose devices come with any extra_var *)

\* values of d->extra_var before finalize: untouched, requested, assigned by hand
ExtraVarInputs == {-1, -2, 2}

\* node names and device kinds of these circuits: a kind that requests an
\* extra variable and one that does not
FinNameInputs == {<<"a">>, <<"b">>}
FinKindInputs == {"R", "V"}

NextFin ==
    \/ \E name \in FinNameInputs : circuit_add_node(name)
    \/ \E kind \in FinKindInputs, t \in TerminalInputs, val \in ParamInputs,
          extra \in ExtraVarInputs : circuit_add_prepared(kind, t[1], t[2], val, extra)
    \/ circuit_finalize /\ failed_finalize' = (failed_finalize \/ ret'.val = -1)

SpecFin == Init /\ [][NextFin]_vars

-----------------------------------------------------------------------------
(* Properties *)

\* C1: whenever circuit_dc_analysis is about to return a count k with
\* 1 <= k < max_iter, the tolerance test |delta[i]| <= tol_abs + tol_rel*|x[i]|
\* held for every index i in the last iteration performed.
C1_EarlyReturnMeansConverged ==
    (pc = "exit" /\ dc.iter >= 1 /\ dc.iter < dc.max_iter)
        => Converged(dc.delta, x, dc.tol_abs, dc.tol_rel)

C3_ReturnsFailureOrPositiveCount ==
    (pc = "idle" /\ finalized = 1 /\ ret.op = "dc_analysis")
        => (ret.val = -1 \/ ret.val >= 1)

SolverReportsSingular ==
    pc = "solve" /\ Eliminate(dc.A, dc.z, dc.n, 0).singular

ZeroColumn ==
    /\ pc = "solve"
    /\ \E k \in 0..(dc.n - 1) : \A i \in 0..(dc.n - 1) : Cell(dc.A, dc.n, i, k) = RZero

ReleasedOnce(h) ==
    \A r \in Resources :
        /\ h.frees[r] = h.allocs[r]
        /\ r \in Buffers \cup {"ctx"} => h.allocs[r] <= 1

\* C4: when the solver reports a singular matrix (for instance an all-zero
\* column) the analysis does no further iteration and returns -1; on every
\* return (success, singular, allocation failure) the context, the four work
\* buffers and the solver's copies have each been released exactly once.
C4_SingularFailsAndReleases ==
    [][ /\ (SolverReportsSingular \/ ZeroColumn)
              => (pc' = "idle" /\ ret' = RetVal("dc_analysis", -1))
        /\ (pc' = "idle" /\ heap' # heap)
              => (ReleasedOnce(heap') /\ ctx' = NoCtx)
        /\ (heap' # NoHeap)
              => \A r \in Resources : heap'.frees[r] <= heap'.allocs[r] ]_vars

C4_Witness ==
    /\ pc = "idle"
    /\ ret = RetVal("dc_analysis", -1)
    /\ heap # NoHeap
    /\ heap.allocs["M"] = 1
    /\ heap.allocs["rhs"] = 1
    /\ heap.frees["ctx"] = 1

\* C5: devices are traversed in the order they were added: of two devices
\* that were granted an extra variable the one added earlier holds the smaller
\* index, and an NR iteration stamps the devices in insertion order.
C5_InsertionOrder ==
    /\ finalized = 1 =>
          \A i, j \in 1..Len(devices) :
              (/\ devices[i].name < devices[j].name
               /\ devices[i].extra_var >= 0
               /\ devices[j].extra_var >= 0)
                  => devices[i].extra_var < devices[j].extra_var
    /\ pc = "stamp" =>
          \A i, j \in 1..Len(dc.stamped) : i < j => dc.stamped[i] < dc.stamped[j]

\* C6: after a successful finalize ground has var_index -1, node i has
\* var_index i-1, and num_vars = (num_nodes-1) + num_extra_vars where
\* num_extra_vars counts the voltage sources and inductors.
C6_FinalizeLayout ==
    finalized = 1 =>
        /\ nodes[1].var_index = -1
        /\ \A i \in 1..(num_nodes - 1) : nodes[i + 1].var_index = i - 1
        /\ num_vars = (num_nodes - 1) + num_extra_vars
        /\ num_extra_vars =
              Cardinality({i \in 1..Len(devices) : devices[i].kind \in {"V", "L"}})

C6_Witness ==
    /\ finalized = 1
    /\ num_nodes = 3
    /\ num_extra_vars = 2

DeviceList == [i \in 1..Len(devices) |-> devices[i].name]

\* C7: once finalized, every add_node returns -1, every add_device returns
\* null, and no call changes finalized, num_nodes, num_devices, the device
\* list, any var_index, num_vars or num_extra_vars.
C7_FrozenAfterFinalize ==
    [][ finalized = 1 =>
          /\ finalized' = 1
          /\ nodes' = nodes
          /\ num_devices' = num_devices
          /\ DeviceList' = DeviceList
          /\ num_vars' = num_vars
          /\ num_extra_vars' = num_extra_vars
          /\ (ret' # ret /\ ret'.op = "add_node") => ret'.val = -1
          /\ (ret' # ret /\ ret'.op = "add_device") => ret'.val = NullDevice ]_vars

C7_Witness ==
    /\ finalized = 1
    /\ ret.op = "add_node"
    /\ ret.val = -1
    /\ x # <<>>

\* C8: finalize on a circuit that has only the ground node fails: it returns
\* -1 and finalized stays 0.
C8_GroundOnlyFinalizeFails ==
    num_nodes = 1 =>
        /\ finalized = 0
        /\ ret.op = "finalize" => ret.val = -1

C8_Witness ==
    /\ num_nodes = 1
    /\ num_devices > 0
    /\ ret = RetVal("finalize", -1)

\* C9 (as stated): a finalize call on an already-finalized circuit does not
\* return the success code 0.
C9_SecondFinalizeFails ==
    [][ (finalized = 1 /\ ret' # ret /\ ret'.op = "finalize")
            => ret'.val # 0 ]_vars

\* C9 (amended): a finalize call on an already-finalized circuit returns 0 and
\* changes nothing in the circuit.
C9_SecondFinalizeIsNoOp ==
    [][ (finalized = 1 /\ ret' # ret /\ ret'.op = "finalize")
            => (ret'.val = 0 /\ UNCHANGED <<circuitVars, x, ctx, heap>>) ]_vars

C9_Witness ==
    /\ finalized = 1
    /\ ret = RetVal("finalize", 0)
    /\ x # <<>>

\* C10: in a context created with N > 0, after any sequence of reset, add_A,
\* add_z and alloc_extra_var, every triplet has 0 <= row, col < num_vars and
\* val # 0, and z has exactly num_vars cells.
C10_ContextInvariant ==
    ctx # NoCtx =>
        /\ \A i \in 1..Len(ctx.triplets_) :
              /\ 0 <= ctx.triplets_[i].row /\ ctx.triplets_[i].row < ctx.num_vars_
              /\ 0 <= ctx.triplets_[i].col /\ ctx.triplets_[i].col < ctx.num_vars_
              /\ ctx.triplets_[i].val # RZero
        /\ Len(ctx.z_) = ctx.num_vars_

C10_Witness ==
    /\ ctx # NoCtx
    /\ ctx.num_extra_allocated_ >= 2
    /\ Len(ctx.triplets_) >= 1
    /\ \E i \in 1..Len(ctx.z_) : ctx.z_[i] # RZero

AllocStep == ctx # NoCtx /\ ctx' # NoCtx /\ ret'.op = "ctx_alloc_extra_var"

\* C11: every alloc_extra_var call returns the num_vars it found, raises
\* num_vars by exactly one, appends exactly one zero cell to z, keeps the
\* earlier z cells and leaves the triplet list alone.
C11_AllocReturnsOldNumVars ==
    [][ AllocStep =>
          /\ ret'.val = ctx.num_vars_
          /\ ctx'.num_vars_ = ctx.num_vars_ + 1
          /\ Len(ctx'.z_) = Len(ctx.z_) + 1
          /\ ctx'.z_[Len(ctx'.z_)] = RZero
          /\ \A i \in 1..Len(ctx.z_) : ctx'.z_[i] = ctx.z_[i]
          /\ ctx'.triplets_ = ctx.triplets_ ]_vars

\* the sum of the values of the triplets ts[1..i] that sit at (row, col)
RECURSIVE SumAt(_, _, _, _)
SumAt(ts, i, row, col) ==
    IF i = 0 THEN RZero
    ELSE LET rest == SumAt(ts, i - 1, row, col)
         IN  IF ts[i].row = row /\ ts[i].col = col THEN RAdd(ts[i].val, rest) ELSE rest

Reorderings(n) == {p \in [1..n -> 1..n] : \A i, j \in 1..n : p[i] = p[j] => i = j}

ValidAddA(c, a) ==
    /\ 0 <= a[1] /\ a[1] < c.num_vars_
    /\ 0 <= a[2] /\ a[2] < c.num_vars_
    /\ a[3] # RZero

ValidAddZ(c, a) == 0 <= a[1] /\ a[1] < c.num_vars_

AssembledIsCellSum(c) ==
    LET n == c.num_vars_
        ts == c.triplets_
        dense == CtxAssembleDense(c)
    IN  /\ \A row, col \in 0..(n - 1) :
              dense[row * n + col + 1] = SumAt(ts, Len(ts), row, col)
        /\ \A p \in Reorderings(Len(ts)) :
              CtxAssembleDense([c EXCEPT !.triplets_ = [i \in 1..Len(ts) |-> ts[p[i]]]])
                 = dense

\* a step after which the assembled matrix may differ: a new context, a
\* changed triplet list or a changed num_vars
TripletsTouched ==
    /\ ctx' # NoCtx
    /\ \/ ctx = NoCtx
       \/ ctx'.triplets_ # ctx.triplets_
       \/ ctx'.num_vars_ # ctx.num_vars_

C13_InvalidInputIsNoOp ==
    [][ /\ (ctx # NoCtx /\ ctx' # NoCtx) =>
              /\ (ret'.op = "ctx_add_A" /\ ~ValidAddA(ctx, ret'.args))
                    => (ctx'.triplets_ = ctx.triplets_ /\ ctx'.z_ = ctx.z_)
              /\ (ret'.op = "ctx_add_z" /\ ~ValidAddZ(ctx, ret'.args))
                    => (ctx'.triplets_ = ctx.triplets_ /\ ctx'.z_ = ctx.z_)
        /\ (ret'.op \in {"ctx_add_A", "ctx_add_z"}) => ctx' # NoCtx
        /\ (ret'.op = "ctx_create" /\ ret'.args[1] <= 0) => ctx' = NoCtx ]_vars

C13_Witness ==
    /\ ctx # NoCtx
    /\ ret.op = "ctx_add_z"
    /\ ret.args[1] = ctx.num_vars_
    /\ ctx.num_extra_allocated_ >= 1
    /\ Len(ctx.triplets_) >= 1
    /\ \E i \in 1..Len(ctx.z_) : ctx.z_[i] # RZero

\* C14: reset, in any reachable context state, empties the triplet list and
\* zeroes every z cell while num_vars and the length of z (cells added by
\* alloc_extra_var included) stay as they were.
C14_ResetFrame ==
    [][ (ctx # NoCtx /\ ret'.op = "ctx_reset") =>
          /\ ctx' # NoCtx
          /\ ctx'.triplets_ = <<>>
          /\ \A i \in 1..Len(ctx'.z_) : ctx'.z_[i] = RZero
          /\ ctx'.num_vars_ = ctx.num_vars_
          /\ ctx'.num_extra_allocated_ = ctx.num_extra_allocated_
          /\ Len(ctx'.z_) = Len(ctx.z_) ]_vars

C14_Witness ==
    /\ ctx # NoCtx
    /\ ret.op = "ctx_reset"
    /\ ctx.num_extra_allocated_ >= 1
    /\ ctx.triplets_ = <<>>
    /\ Len(ctx.z_) > 1

\* C15: on an unfinalized circuit add_node(name) returns 0 and appends nothing
\* for a ground alias, returns the existing index and appends nothing for a
\* name that exists, and otherwise appends one node and returns its index;
\* hence repeating the call returns the same index and appends nothing.
C15_AddNodeIdempotent ==
    [][ (finalized = 0 /\ ret'.op = "add_node") =>
          LET name == ret'.args[1]
          IN  /\ is_ground_name(name) => (ret'.val = 0 /\ nodes' = nodes)
              /\ (~is_ground_name(name) /\ FindNode(nodes, name) >= 0)
                    => (ret'.val = FindNode(nodes, name) /\ nodes' = nodes)
              /\ (~is_ground_name(name) /\ FindNode(nodes, name) < 0)
                    => (ret'.val = Len(nodes) /\ Len(nodes') = Len(nodes) + 1)
              /\ \/ is_ground_name(name) /\ ret'.val = 0
                 \/ FindNode(nodes', name) = ret'.val ]_vars

DeviceUnderTest == devices[1]

\* C16: a voltage source carries extra_var = -2 as soon as CreateVoltageSource
\* returns it, before any Init call, and Init leaves it at -2.
C16_CreatedVoltageSourceRequests ==
    (Len(devices) = 1 /\ DeviceUnderTest.kind = "V"
        /\ ret.op \in {"create_device", "device_init"})
        => DeviceUnderTest.extra_var = -2

Triplet(row, col, val) == [row |-> row, col |-> col, val |-> val]

\* s and t hold the same entries the same number of times
SameEntries(s, t) ==
    /\ Len(s) = Len(t)
    /\ \E p \in Reorderings(Len(s)) : \A i \in 1..Len(s) : s[i] = t[p[i]]

StampedNonlinear(kind) ==
    /\ Len(devices) = 1
    /\ DeviceUnderTest.kind = kind
    /\ ret.op = "stamp_nonlinear"

\* the cell (row, col) of the assembled matrix of the fixture's context
DenseCell(row, col) == CtxAssembleDense(ctx)[row * ctx.num_vars_ + col + 1]

\* 1 where j = n, else 0
Unit(j, n) == IF j = n THEN 1 ELSE 0

\* C17: a voltage source with branch index k >= 0 stamps exactly +1 at
\* (n1,k) and (k,n1), -1 at (n2,k) and (k,n2) and V on z[k]; the two entries
\* of a terminal that is -1 are left out, V is always added to z[k]; row k of
\* the assembled matrix reads x[n1] - x[n2] = V.
C17_VoltageSourceStamp ==
    (StampedNonlinear("V") /\ DeviceUnderTest.extra_var >= 0) =>
        LET n1 == DeviceUnderTest.nodes[1]
            n2 == DeviceUnderTest.nodes[2]
            k == DeviceUnderTest.extra_var
            e1 == IF n1 >= 0
                  THEN <<Triplet(n1, k, ROne), Triplet(k, n1, ROne)>> ELSE <<>>
            e2 == IF n2 >= 0
                  THEN <<Triplet(n2, k, RNeg(ROne)), Triplet(k, n2, RNeg(ROne))>>
                  ELSE <<>>
        IN  /\ SameEntries(ctx.triplets_, e1 \o e2)
            /\ \A i \in 0..(ctx.num_vars_ - 1) :
                  ctx.z_[i + 1] = IF i = k THEN DeviceUnderTest.params ELSE RZero
            /\ \A j \in 0..(ctx.num_vars_ - 1) :
                  DenseCell(k, j) = RInt(Unit(j, n1) - Unit(j, n2))

C17_Witness ==
    /\ StampedNonlinear("V")
    /\ DeviceUnderTest.extra_var = 2
    /\ DeviceUnderTest.nodes[1] = 0
    /\ DeviceUnderTest.nodes[2] = -1
    /\ ctx.z_[3] = RInt(2)
    /\ Len(ctx.triplets_) = 2

\* C18: a resistor with R # 0 stamps +g at (n1,n1) and (n2,n2) and -g at
\* (n1,n2) and (n2,n1) with g = 1/R, leaves out every entry that touches a -1
\* terminal and never changes z; the assembled matrix is symmetric.
C18_ResistorStamp ==
    (StampedNonlinear("R") /\ DeviceUnderTest.params # RZero) =>
        LET n1 == DeviceUnderTest.nodes[1]
            n2 == DeviceUnderTest.nodes[2]
            g == RDiv(ROne, DeviceUnderTest.params)
            e1 == IF n1 >= 0 THEN <<Triplet(n1, n1, g)>> ELSE <<>>
            e2 == IF n2 >= 0 THEN <<Triplet(n2, n2, g)>> ELSE <<>>
            e3 == IF n1 >= 0 /\ n2 >= 0
                  THEN <<Triplet(n1, n2, RNeg(g)), Triplet(n2, n1, RNeg(g))>>
                  ELSE <<>>
        IN  /\ SameEntries(ctx.triplets_, e1 \o e2 \o e3)
            /\ \A i \in 1..Len(ctx.z_) : ctx.z_[i] = RZero
            /\ \A i, j \in 0..(ctx.num_vars_ - 1) : DenseCell(i, j) = DenseCell(j, i)

C18_Witness ==
    /\ StampedNonlinear("R")
    /\ DeviceUnderTest.nodes[1] = 0
    /\ DeviceUnderTest.nodes[2] = 1
    /\ DenseCell(0, 0) = Rat(1, 2)
    /\ DenseCell(0, 1) = Rat(-1, 2)

\* the context a zero-volt voltage source on the same terminals and the same
\* branch index leaves when it stamps a fresh context
ZeroVoltSourceStamp ==
    VoltageSourceStampNonlinear(
        [DeviceUnderTest EXCEPT !.kind = "V", !.params = RZero], CtxReset(ctx))

\* C19: for every terminal assignment and allocated branch index the DC stamp
\* of an inductor gives the same assembled matrix and the same z as the stamp
\* of a voltage source with V = 0 on the same terminals and branch index.
C19_InductorIsZeroVoltSource ==
    (StampedNonlinear("L") /\ DeviceUnderTest.extra_var >= 0) =>
        /\ CtxAssembleDense(ctx) = CtxAssembleDense(ZeroVoltSourceStamp)
        /\ ctx.z_ = ZeroVoltSourceStamp.z_

C19_Witness ==
    /\ StampedNonlinear("L")
    /\ DeviceUnderTest.extra_var = 2
    /\ DeviceUnderTest.params # RZero
    /\ DeviceUnderTest.nodes[1] = 1
    /\ DeviceUnderTest.nodes[2] = 0
    /\ DenseCell(2, 1) = ROne
    /\ DenseCell(0, 2) = RNeg(ROne)

\* what stamp_nonlinear with the guess xs leaves in a fresh context
NonlinearStampAt(xs) ==
    StampNonlinear(DeviceUnderTest, CtxReset(ctx), IterationState(0, xs))

\* C20: for resistor, current source, voltage source and diode
\* stamp_transient leaves exactly the triplets and z that stamp_nonlinear
\* leaves: for R, I and V whatever t, h and the integration method are (and
\* whatever guess stamp_nonlinear is given), for the diode stamp_nonlinear
\* evaluated at x_current = ts.x_prev.
C20_TransientDelegates ==
    (Len(devices) = 1 /\ ret.op = "stamp_transient") =>
        LET ts == ret.args[1]
        IN  /\ DeviceUnderTest.kind \in {"R", "I", "V"} =>
                  \A xs \in XVecInputs :
                      /\ ctx.triplets_ = NonlinearStampAt(xs).triplets_
                      /\ ctx.z_ = NonlinearStampAt(xs).z_
            /\ DeviceUnderTest.kind = "D" =>
                  /\ ctx.triplets_ = NonlinearStampAt(ts.x_prev).triplets_
                  /\ ctx.z_ = NonlinearStampAt(ts.x_prev).z_

C20_Witness ==
    /\ Len(devices) = 1
    /\ DeviceUnderTest.kind = "D"
    /\ DeviceUnderTest.nodes[1] = 0
    /\ DeviceUnderTest.nodes[2] = 1
    /\ ret.op = "stamp_transient"
    /\ ret.args[1].x_prev = XVec(Rat(3, 5), RZero)
    /\ ret.args[1].im = kGear2
    /\ Len(ctx.triplets_) = 4
    /\ ctx.z_[1] # RZero

UpdateStateStep == Len(devices) = 1 /\ Len(devices') = 1 /\ ret'.op = "update_state"

\* x[n], with 0 for a terminal that is -1
VoltageAt(xs, n) == IF n >= 0 THEN xs[n + 1] ELSE RZero

\* the value a call with solution xs stores as the newest history value
HistoryValue(d, xs) ==
    IF d.kind = "C" THEN RSub(VoltageAt(xs, d.nodes[1]), VoltageAt(xs, d.nodes[2]))
    ELSE xs[d.extra_var + 1]

\* the devices whose UpdateState goes past its early returns
KeepsHistory(d) ==
    /\ d.state # NoState
    /\ d.kind = "C" \/ (d.kind = "L" /\ d.extra_var >= 0)

\* terminals, extra_var, parameters, x and the context are left alone, a
\* device that keeps no history is left as it is, and the two history fields
\* are shifted by one step
ShiftsHistory(d, e, xs) ==
    /\ e.nodes = d.nodes /\ e.extra_var = d.extra_var /\ e.params = d.params
    /\ e.kind = d.kind /\ e.name = d.name
    /\ x' = x /\ ctx' = ctx
    /\ ~KeepsHistory(d) => e = d
    /\ KeepsHistory(d) =>
          /\ e.state.prev2 = d.state.prev
          /\ e.state.prev = HistoryValue(d, xs)
          /\ ret.op = "update_state" =>
                e.state.prev2 = HistoryValue(d, ret.args[1])

\* C21 as stated: update_state shifts the history by one step and changes
\* nothing else (capacitor: v_prev2' = v_prev, v_prev' = x[n1] - x[n2];
\* inductor with branch k: i_prev2' = i_prev, i_prev' = x[k]; after calls with
\* a then b the state holds the values from b and a); R, I, V and D are left
\* unchanged; x, terminals, extra_var and parameters are never modified.
C21_ShiftsAndNothingElse ==
    [][UpdateStateStep =>
         LET d == devices[1]
             e == devices'[1]
         IN  /\ ShiftsHistory(d, e, ret'.args[1])
             /\ KeepsHistory(d) => e.state.aux = d.state.aux]_vars

\* C21, amended: as above, except that under the trapezoidal method the call
\* also rewrites the third state field: the capacitor's i_prev becomes
\* (2C/h)(v - v_prev) - i_prev and the inductor's v_prev becomes
\* x[n1] - x[n2]; under the other methods the third field is unchanged.
C21_ShiftsHistory ==
    [][UpdateStateStep =>
         LET d == devices[1]
             e == devices'[1]
             xs == ret'.args[1]
             ts == ret'.args[2]
             v == RSub(VoltageAt(xs, d.nodes[1]), VoltageAt(xs, d.nodes[2]))
         IN  /\ ShiftsHistory(d, e, xs)
             /\ KeepsHistory(d) =>
                   e.state.aux =
                       IF ts.im.name # "trapezoidal" THEN d.state.aux
                       ELSE IF d.kind = "L" THEN v
                       ELSE RSub(RMul(RDiv(RMul(RInt(2), d.params), ts.h),
                                      RSub(v, d.state.prev)), d.state.aux)]_vars

C21_Witness ==
    /\ Len(devices) = 1
    /\ devices[1].kind = "C"
    /\ devices[1].nodes[1] = 0
    /\ devices[1].nodes[2] = 1
    /\ ret.op = "update_state"
    /\ ret.args[2].im = kTrapezoidal
    /\ devices[1].state # NoState
    /\ devices[1].state.prev = Rat(3, 5)
    /\ devices[1].state.prev2 = RNeg(ROne)
    /\ devices[1].state.aux # RZero

\* C22: for any current guess x the diode stamp uses one conductance g_eq and
\* one current i_eq for all its entries: +g_eq at (a,a) and (c,c), -g_eq at
\* (a,c) and (c,a), -i_eq added to z[a] and +i_eq added to z[c], entries that
\* touch a -1 terminal left out; the assembled block is symmetric and the two
\* RHS contributions are equal and opposite.
C22_DiodeStampStructure ==
    (StampedNonlinear("D") /\ ret.args[1] # NullVec) =>
        LET a == DeviceUnderTest.nodes[1]
            c == DeviceUnderTest.nodes[2]
            g_eq == IF ctx.triplets_ = <<>> THEN RZero ELSE ctx.triplets_[1].val
            i_eq == IF c >= 0 THEN ctx.z_[c + 1]
                    ELSE IF a >= 0 THEN RNeg(ctx.z_[a + 1]) ELSE RZero
            e1 == IF a >= 0 THEN <<Triplet(a, a, g_eq)>> ELSE <<>>
            e2 == IF c >= 0 THEN <<Triplet(c, c, g_eq)>> ELSE <<>>
            e3 == IF a >= 0 /\ c >= 0
                  THEN <<Triplet(a, c, RNeg(g_eq)), Triplet(c, a, RNeg(g_eq))>>
                  ELSE <<>>
        IN  /\ SameEntries(ctx.triplets_, e1 \o e2 \o e3)
            /\ \A i \in 0..(ctx.num_vars_ - 1) :
                  ctx.z_[i + 1] = RAdd(IF i = a THEN RNeg(i_eq) ELSE RZero,
                                       IF i = c THEN i_eq ELSE RZero)
            /\ \A i, j \in 0..(ctx.num_vars_ - 1) : DenseCell(i, j) = DenseCell(j, i)

C22_Witness ==
    /\ StampedNonlinear("D")
    /\ ret.args[1] = XVec(Rat(3, 5), RZero)
    /\ DeviceUnderTest.nodes[1] = 0
    /\ DeviceUnderTest.nodes[2] = 1
    /\ Len(ctx.triplets_) = 4
    /\ ctx.z_[1] # RZero
    /\ ctx.z_[2] = RNeg(ctx.z_[1])
    /\ DenseCell(0, 1) = RNeg(DenseCell(0, 0))

\* C23: assemble_dense is non-destructive: the triplet list, z and num_vars
\* of the context are the same after the call as before it, so z can still be
\* read, and assembling the context again (no add or reset in between) yields
\* the matrix the call has just produced.
C23_AssembleNonDestructive ==
    [][(ret'.op = "ctx_assemble_dense" /\ ctx # NoCtx) =>
         /\ ctx'.triplets_ = ctx.triplets_
         /\ ctx'.z_ = ctx.z_
         /\ ctx'.num_vars_ = ctx.num_vars_
         /\ ret'.args[1] # NullVec => ret'.args[1] = CtxAssembleDense(ctx')]_vars

C23_Witness ==
    /\ ret.op = "ctx_assemble_dense"
    /\ ctx # NoCtx
    /\ Len(ctx.triplets_) = 2
    /\ ctx.z_[1] = ROne
    /\ ret.args[1] # NullVec
    /\ ret.args[1] = CtxAssembleDense(ctx)
    /\ ret.args[1][1] = RInt(2)

\* the ways to read the three devices as V1(p, gnd), R1(p, m), R2(m, gnd)
\* with rewritten terminals
DividerShapes ==
    IF ~(finalized = 1 /\ rewritten /\ Len(devices) = 3) THEN {}
    ELSE {s \in [v : 1..3, r1 : 1..3, r2 : 1..3] :
            /\ s.r1 # s.r2
            /\ devices[s.v].kind = "V"
            /\ devices[s.r1].kind = "R" /\ devices[s.r2].kind = "R"
            /\ RGt(devices[s.r1].params, RZero) /\ RGt(devices[s.r2].params, RZero)
            /\ devices[s.v].nodes[1] >= 0 /\ devices[s.v].nodes[2] = -1
            /\ devices[s.v].extra_var >= 0
            /\ devices[s.r1].nodes[1] = devices[s.v].nodes[1]
            /\ devices[s.r1].nodes[2] >= 0
            /\ devices[s.r1].nodes[2] # devices[s.r1].nodes[1]
            /\ devices[s.r2].nodes[1] = devices[s.r1].nodes[2]
            /\ devices[s.r2].nodes[2] = -1}

\* xs holds V at vpos, V*R2/(R1+R2) at mid and -V/(R1+R2) in the branch of V1
DividerSolution(s, xs) ==
    LET V == devices[s.v].params
        R1 == devices[s.r1].params
        R2 == devices[s.r2].params
    IN  /\ xs[devices[s.v].nodes[1] + 1] = V
        /\ xs[devices[s.r2].nodes[1] + 1] = RDiv(RMul(V, R2), RAdd(R1, R2))
        /\ xs[devices[s.v].extra_var + 1] = RNeg(RDiv(V, RAdd(R1, R2)))

AllStampedOnce ==
    /\ Len(dc.stamped) = Len(devices)
    /\ \A i \in 1..Len(devices) :
          Cardinality({j \in 1..Len(dc.stamped) : dc.stamped[j] = devices[i].name}) = 1

\* C25: in one DC analysis x is zeroed before the first iteration; every
\* iteration resets the context before any device stamps, lets every device
\* of the circuit stamp exactly once, and assembles and solves only after
\* all of them have stamped; x is not written while the devices stamp, only
\* by the update step that follows a successful solve.
C25_Protocol ==
    [][/\ (pc = "idle" /\ pc' = "loop") => x' = ZeroVec(num_vars)
       /\ (pc = "loop" /\ pc' = "stamp") =>
             (Fresh(ctx') /\ dc'.stamped = <<>> /\ x' = x)
       /\ (pc = "stamp" /\ pc' = "stamp") =>
             (Len(dc'.stamped) = Len(dc.stamped) + 1 /\ x' = x)
       /\ (pc = "stamp" /\ pc' = "solve") => (AllStampedOnce /\ x' = x)
       /\ pc = "solve" => (AllStampedOnce /\ x' = x)
       /\ (x' # x /\ pc # "idle") =>
             (pc = "update" /\ dc.passes = dc.iter + 1 /\ x' = dc.x_new)]_vars

C25_Witness ==
    /\ pc = "update"
    /\ Len(devices) = 2
    /\ dc.stamped = <<devices[1].name, devices[2].name>>
    /\ dc.passes = 1
    /\ dc.x_new # x

\* C26: circuit_finalize leaves the terminals nodes[0..3] of every device as
\* they are; after a finalize through the direct API a used terminal still
\* holds the node index given at creation (0 for ground, not -1), which is
\* one more than the var_index of its node, and an unused terminal holds -1:
\* rewriting terminals to var_index values is left to the caller.
C26_FinalizeKeepsTerminals ==
    [][ret'.op = "finalize" =>
         /\ Len(devices') = Len(devices)
         /\ \A i \in 1..Len(devices) : devices'[i].nodes = devices[i].nodes
         /\ (finalized' = 1 /\ ~rewritten') =>
               \A i \in 1..Len(devices') :
                   /\ \A k \in 1..2 :
                         LET t == devices'[i].nodes[k]
                         IN  /\ 0 <= t /\ t < Len(nodes')
                             /\ nodes'[t + 1].var_index = t - 1
                   /\ \A k \in 3..4 : devices'[i].nodes[k] = -1]_vars

C26_Witness ==
    /\ ret.op = "finalize"
    /\ finalized = 1
    /\ ~rewritten
    /\ Len(devices) = 2
    /\ devices[1].nodes = <<2, 0, -1, -1>>
    /\ devices[1].extra_var >= 0
    /\ nodes[3].var_index = 1

\* the element lines the parser turns into devices, in netlist order
KnownLines(netlist) == SelectSeq(netlist, LAMBDA l : l.type \in DeviceKinds \cup {"D"})

\* the var_index of the node that carries the label: -1 for ground, else the
\* var_index of the first node stored under the label
LabelVarIndex(name) ==
    IF is_ground_name(name) THEN -1
    ELSE nodes[FindNode(nodes, StrNCpy(name)) + 1].var_index

\* C27: the parser returns either null or a finalized circuit in which the
\* two used terminals of every device hold the var_index of the node named on
\* its line (-1 for ground, otherwise a value in [0, num_nodes-1)) and the
\* unused terminals hold -1; a netlist without a non-ground node gives null.
C27_ParsedTerminals ==
    ret.op = "parse" =>
        LET known == KnownLines(ret.args[1])
        IN  /\ (\A j \in 1..Len(known) :
                   is_ground_name(known[j].n1) /\ is_ground_name(known[j].n2))
                 => ret.val = NullCircuit
            /\ ret.val # NullCircuit =>
                 /\ finalized = 1
                 /\ Len(devices) = Len(known)
                 /\ \A i \in 1..Len(devices) :
                       LET l == known[Len(known) - i + 1]
                           d == devices[i]
                       IN  /\ d.nodes[1] = LabelVarIndex(l.n1)
                           /\ d.nodes[2] = LabelVarIndex(l.n2)
                           /\ d.nodes[3] = -1 /\ d.nodes[4] = -1
                           /\ \A k \in 1..2 :
                                 d.nodes[k] = -1
                                     \/ (0 <= d.nodes[k] /\ d.nodes[k] < num_nodes - 1)

\* the devices whose Init hook requests an extra variable
Requests(d) == d.kind \in {"V", "L"}

\* C28: after a successful circuit_finalize no device holds extra_var = -2;
\* the devices that request an extra variable hold pairwise distinct indices
\* that exactly fill [num_nodes-1, num_vars) and every other device holds
\* -1, whatever extra_var held before the call.
C28_ExtraVarsAssigned ==
    [][(ret'.op = "finalize" /\ finalized = 0 /\ finalized' = 1) =>
         LET req == {i \in 1..Len(devices') : Requests(devices'[i])}
         IN  /\ \A i \in 1..Len(devices') : devices'[i].extra_var # -2
             /\ \A i \in 1..Len(devices') :
                   ~Requests(devices'[i]) => devices'[i].extra_var = -1
             /\ \A i, j \in req :
                   devices'[i].extra_var = devices'[j].extra_var => i = j
             /\ {devices'[i].extra_var : i \in req} = (num_nodes - 1)..(num_vars' - 1)]_vars

C28_Witness ==
    /\ ret.op = "finalize"
    /\ finalized = 1
    /\ Len(devices) = 2
    /\ devices[1].kind = "R" /\ devices[1].extra_var = -1
    /\ devices[2].kind = "V" /\ devices[2].extra_var = 2
    /\ num_nodes = 3
    /\ num_vars = 3

\* how many of the devices before position i request an extra variable
RECURSIVE RequestsBefore(_, _)
RequestsBefore(list, i) ==
    IF i <= 1 THEN 0
    ELSE RequestsBefore(list, i - 1) + (IF Requests(list[i - 1]) THEN 1 ELSE 0)

\* the layout a successful finalize gives the circuit, as a function of the
\* node table and the device list alone
FinalizedFromScratch ==
    /\ finalized' = 1
    /\ Len(nodes') = Len(nodes) /\ Len(devices') = Len(devices)
    /\ \A i \in 1..Len(nodes) :
          /\ nodes'[i].name = nodes[i].name
          /\ nodes'[i].var_index = i - 2
    /\ \A i \in 1..Len(devices) :
          /\ devices'[i].kind = devices[i].kind
          /\ devices'[i].nodes = devices[i].nodes
          /\ devices'[i].extra_var =
                IF Requests(devices[i])
                THEN num_nodes - 1 + RequestsBefore(devices, i) ELSE -1
    /\ num_extra_vars' = RequestsBefore(devices, Len(devices) + 1)
    /\ num_vars' = num_nodes - 1 + num_extra_vars'

\* C29: a circuit_finalize that fails (no non-ground node) leaves finalized,
\* num_vars and num_extra_vars at 0 and has run no init hook; afterwards
\* add_node of a new name and add_device succeed, and a following finalize
\* succeeds with the node indices, extra-variable indices and num_vars that
\* the node table and device list determine, as if no call had failed.
C29_FailedFinalizeRetry ==
    [][/\ (ret'.op = "finalize" /\ ret'.val = -1) =>
             /\ finalized' = 0 /\ num_vars' = 0 /\ num_extra_vars' = 0
             /\ nodes' = nodes
             /\ \A i \in 1..Len(devices') :
                   devices'[i].state = NoState /\ devices'[i].extra_var = -1
       /\ (failed_finalize /\ finalized = 0 /\ ret'.op = "add_node"
               /\ FindNode(nodes, ret'.args[1]) < 0) =>
             (ret'.val = num_nodes /\ Len(nodes') = num_nodes + 1)
       /\ (failed_finalize /\ finalized = 0 /\ ret'.op = "add_device") =>
             (ret'.val # NullDevice /\ Len(devices') = Len(devices) + 1)
       /\ (failed_finalize /\ finalized = 0 /\ num_nodes > 1 /\ ret'.op = "finalize") =>
             (ret'.val = 0 /\ FinalizedFromScratch)]_vars

C29_Witness ==
    /\ failed_finalize
    /\ ret.op = "finalize"
    /\ ret.val = 0
    /\ finalized = 1
    /\ num_nodes = 3
    /\ Len(devices) = 2
    /\ devices[1].kind = "V" /\ devices[1].extra_var = 2
    /\ devices[2].kind = "V" /\ devices[2].extra_var = 3
    /\ devices[2].nodes = <<0, 0, -1, -1>>
    /\ num_vars = 4

\* C30: for every device kind, stamp_transient on a device whose init hook
\* has not run (no state block) never reads the absent block: the call
\* returns, and it either leaves the context unchanged or leaves a stamp
\* that the parameters alone determine.
C30_TransientWithoutState ==
    [][(Len(devices) = 1 /\ pc = "idle" /\ ret'.op = "stamp_transient"
           /\ devices[1].state = NoState) =>
         /\ pc' = "idle"
         /\ \/ ctx' = ctx
            \/ \A s \in AbsentStateReads :
                  ctx' = StampTransient(devices[1], ctx, ret'.args[1], s)]_vars

====
